---- MODULE Spec2Model ----
(***************************************************************************)
(* HearSay: the media-to-transcript pipeline (YouTube reference parsing,   *)
(* acquisition, transcoding, recognition, translation with fallback and    *)
(* backoff, temporary-file cleanup).                                       *)
(*                                                                         *)
(* Python strings are modelled as sequences of one-character strings, so   *)
(* that parsing (str.split, urllib.parse, re) is computed as the code      *)
(* computes it.  None is the model value NoneV.                            *)
(***************************************************************************)
EXTENDS Integers, Sequences, FiniteSets, TLC

VARIABLES
    t_in, t_pc, t_out,           \* one call of _parse_yt_time: argument, position, return value
    tr_text, tr_target, tr_key,  \* one call of translate_text_with_backoff: text, target_language, settings.DEEPL_API_KEY set
    tr_pc,                       \* position in translate_text_with_backoff
    tr_attempt, tr_delay,        \* its locals attempt and delay
    tr_lang,                     \* its local target_language after normalisation
    tr_calls,                    \* the provider calls made so far, in order
    tr_sleeps,                   \* the time.sleep calls made so far, in order
    tr_result,                   \* the value returned, or the exception raised
    yt_ref,                      \* how the reference given to download_youtube_best_audio is built
    yt_value,                    \* one call of download_youtube_best_audio: its argument youtube_value
    yt_pc,                       \* position in download_youtube_best_audio
    yt_vid, yt_start,            \* its locals vid and start_sec (the result of parse_youtube_value)
    yt_env,                      \* its environment: YTDLP_COOKIES, the cookies file, settings.YT_EXTRACTOR_ARGS
    yt_cmd,                      \* the yt-dlp command line handed to subprocess.run
    yt_proc,                     \* how yt-dlp ended: exit status, stderr, stdout
    yt_result,                   \* the exception raised, if any
    req,                         \* the requests to /transcribe/youtube and /transcribe/upload: inputs, handler locals, response
    fs,                          \* the files in the upload and download directories
    loop,                        \* per server process, the request whose handler occupies the event loop (0: none)
    whisper,                     \* per server process: started, the lru_cache of get_whisper_model, the models constructed
    stt_backend                  \* settings.STT_BACKEND

tvars  == <<t_in, t_pc, t_out>>
trvars == <<tr_text, tr_target, tr_key, tr_pc, tr_attempt, tr_delay, tr_lang, tr_calls,
            tr_sleeps, tr_result>>
ytvars == <<yt_ref, yt_value, yt_pc, yt_vid, yt_start, yt_env, yt_cmd, yt_proc, yt_result>>
ppvars == <<req, fs, loop, whisper, stt_backend>>
vars   == <<tvars, trvars, ytvars, ppvars>>

NoneV == "None"

-----------------------------------------------------------------------------
(* Bounds of the model.                                                    *)

\* longest offset string given to _parse_yt_time (all strings over TimeAlphabet up to this length)
MaxTimeLen == 4

\* longest target-language code given to translate_text_with_backoff (all strings over
\* CodeAlphabet up to this length, and the codes of NamedCodes)
MaxCodeLen == 2

\* longest offset string carried by a YouTube reference (all strings over OffsetAlphabet
\* up to this length)
MaxOffsetLen == 2

-----------------------------------------------------------------------------
(* Python string primitives.                                               *)

Digits == {"0", "1", "2", "3", "4", "5", "6", "7", "8", "9"}

DigitVal(c) ==
    CASE c = "0" -> 0 [] c = "1" -> 1 [] c = "2" -> 2 [] c = "3" -> 3 [] c = "4" -> 4
      [] c = "5" -> 5 [] c = "6" -> 6 [] c = "7" -> 7 [] c = "8" -> 8 [] c = "9" -> 9

\* int(s) for a string of ASCII digits
RECURSIVE int(_)
int(s) ==
    IF Len(s) = 0 THEN 0
    ELSE 10 * int(SubSeq(s, 1, Len(s) - 1)) + DigitVal(s[Len(s)])

\* str.isdigit(): non-empty and every character a digit
isdigit(s) == Len(s) > 0 /\ \A i \in 1..Len(s) : s[i] \in Digits

LowerLetters == <<"a", "b", "c", "d", "e", "f", "g", "h", "i", "j", "k", "l", "m",
                  "n", "o", "p", "q", "r", "s", "t", "u", "v", "w", "x", "y", "z">>

UpperLetters == <<"A", "B", "C", "D", "E", "F", "G", "H", "I", "J", "K", "L", "M",
                  "N", "O", "P", "Q", "R", "S", "T", "U", "V", "W", "X", "Y", "Z">>

IsLower(c) == \E i \in 1..26 : LowerLetters[i] = c
IsUpper(c) == \E i \in 1..26 : UpperLetters[i] = c

LowerChar(c) ==
    IF IsUpper(c) THEN LowerLetters[CHOOSE i \in 1..26 : UpperLetters[i] = c] ELSE c

UpperChar(c) ==
    IF IsLower(c) THEN UpperLetters[CHOOSE i \in 1..26 : LowerLetters[i] = c] ELSE c

\* str.lower() and str.upper() (ASCII)
lower(s) == [i \in 1..Len(s) |-> LowerChar(s[i])]
upper(s) == [i \in 1..Len(s) |-> UpperChar(s[i])]

\* Python values: a type tag and, for str and int, the characters of the value
PyStr(s)  == [type |-> "str", val |-> s]
PyInt(s)  == [type |-> "int", val |-> s]
PyNone    == [type |-> "NoneType", val |-> <<>>]
PyExc(n)  == [type |-> n, val |-> <<>>]

\* truth value of a Python value (`not text` is its negation)
Truthy(v) ==
    CASE v.type = "str" -> Len(v.val) > 0
      [] v.type = "int" -> int(v.val) # 0
      [] OTHER -> FALSE

isinstance_str(v) == v.type = "str"

\* an optional int (start_sec): None, or the int n
Nothing == [some |-> FALSE, n |-> 0]
Some(n) == [some |-> TRUE, n |-> n]

\* no yt-dlp command line built yet
NoCmd == [url |-> <<>>, extractor_args |-> <<>>, cookies |-> PyNone, sections |-> PyNone]

\* yt-dlp has not ended
NotRun == [returncode |-> -1, stderr |-> <<>>, stdout |-> <<>>]

\* config.py, line 22: the default of YT_EXTRACTOR_ARGS
YT_EXTRACTOR_ARGS == <<"y", "o", "u", "t", "u", "b", "e", ":", "p", "l", "a", "y", "e", "r", "_", "c", "l", "i", "e", "n", "t", "=", "a", "n", "d", "r", "o", "i", "d">>

\* the environment by default: YTDLP_COOKIES is not set
DefaultEnv ==
    [COOKIES_PATH |-> PyNone, src_is_file |-> FALSE, copy_ok |-> FALSE,
     YT_EXTRACTOR_ARGS |-> YT_EXTRACTOR_ARGS]

\* str.startswith(prefix)
startswith(s, prefix) == Len(s) >= Len(prefix) /\ SubSeq(s, 1, Len(prefix)) = prefix

\* s.find(c) + 1: the first position of character c in s, 0 when there is none
find(s, c) ==
    IF \E i \in 1..Len(s) : s[i] = c
    THEN CHOOSE i \in 1..Len(s) : s[i] = c /\ \A k \in 1..(i - 1) : s[k] # c
    ELSE 0

\* s.split(c, 1): the part before the first c and the part after it
head_of(s, c) == LET i == find(s, c) IN IF i = 0 THEN s ELSE SubSeq(s, 1, i - 1)
tail_of(s, c) == LET i == find(s, c) IN IF i = 0 THEN <<>> ELSE SubSeq(s, i + 1, Len(s))

\* s.split(c): all the parts
RECURSIVE split(_, _)
split(s, c) ==
    LET i == find(s, c) IN
    IF i = 0 THEN <<s>> ELSE <<SubSeq(s, 1, i - 1)>> \o split(SubSeq(s, i + 1, Len(s)), c)

Whitespace == {" "}

\* str.strip()
RECURSIVE lstrip(_)
lstrip(s) == IF Len(s) > 0 /\ s[1] \in Whitespace THEN lstrip(Tail(s)) ELSE s
RECURSIVE rstrip(_)
rstrip(s) ==
    IF Len(s) > 0 /\ s[Len(s)] \in Whitespace THEN rstrip(SubSeq(s, 1, Len(s) - 1)) ELSE s
strip(s) == rstrip(lstrip(s))

\* all strings over alphabet A of length at most n
StringsUpTo(A, n) == UNION {[1..k -> A] : k \in 0..n}

-----------------------------------------------------------------------------
(* downloader.py: _parse_yt_time                                           *)

Units == {"h", "m", "s"}

\* index of the last digit of the maximal digit run that starts at i (s[i] is a digit)
RECURSIVE RunEnd(_, _)
RunEnd(s, i) ==
    IF i + 1 <= Len(s) /\ s[i + 1] \in Digits THEN RunEnd(s, i + 1) ELSE i

\* re.findall(r'(\d+)([hms])', s): the non-overlapping matches, left to right,
\* as <<value, unit>> pairs; \d+ is greedy and must be followed by a unit
RECURSIVE findall_units(_, _)
findall_units(s, i) ==
    IF i > Len(s) THEN <<>>
    ELSE IF s[i] \in Digits
         THEN LET j == RunEnd(s, i) IN
              IF j + 1 <= Len(s) /\ s[j + 1] \in Units
              THEN <<  <<int(SubSeq(s, i, j)), s[j + 1]>>  >> \o findall_units(s, j + 2)
              ELSE findall_units(s, i + 1)
         ELSE findall_units(s, i + 1)

\* re.findall(r'\d+', s): the maximal digit runs, left to right
RECURSIVE findall_digits(_, _)
findall_digits(s, i) ==
    IF i > Len(s) THEN <<>>
    ELSE IF s[i] \in Digits
         THEN LET j == RunEnd(s, i) IN <<SubSeq(s, i, j)>> \o findall_digits(s, j + 1)
         ELSE findall_digits(s, i + 1)

\* the for loop of _parse_yt_time over the (value, unit) pairs
RECURSIVE SumParts(_)
SumParts(parts) ==
    IF Len(parts) = 0 THEN 0
    ELSE LET val == parts[1][1]
             unit == parts[1][2]
         IN (IF unit = "h" THEN val * 3600
             ELSE IF unit = "m" THEN val * 60
             ELSE val) + SumParts(Tail(parts))

_parse_yt_time_ignoring_fallback(t) ==
    IF isdigit(t) THEN int(t) ELSE SumParts(findall_units(lower(t), 1))

_parse_yt_time(t) ==
    IF isdigit(t) THEN int(t)
    ELSE LET total == SumParts(findall_units(lower(t), 1))
             digits == findall_digits(t, 1)
         IN IF total = 0
            THEN (IF Len(digits) > 0 THEN int(digits[1]) ELSE total)
            ELSE total

-----------------------------------------------------------------------------
(* The parts of the state a specification does not use stay idle.          *)

TimeIdle == t_in = <<>> /\ t_pc = "idle" /\ t_out = NoneV

TrIdle ==
    /\ tr_text = PyNone /\ tr_target = <<>> /\ tr_key = FALSE
    /\ tr_pc = "idle" /\ tr_attempt = 0 /\ tr_delay = 0 /\ tr_lang = <<>>
    /\ tr_calls = <<>> /\ tr_sleeps = <<>> /\ tr_result = PyNone

YtIdle ==
    /\ yt_ref = [prefix |-> <<>>, id |-> <<>>, key |-> <<>>, off |-> <<>>]
    /\ yt_value = <<>> /\ yt_pc = "idle" /\ yt_vid = PyNone /\ yt_start = Nothing
    /\ yt_env = DefaultEnv /\ yt_cmd = NoCmd /\ yt_proc = NotRun /\ yt_result = PyNone

\* the requests, the server processes (os.getpid()) and the addresses id(file) can take
Reqs  == {1, 2}
Pids  == {"1", "2"}
Addrs == {"a", "b"}

NoPath == [dir |-> "", stem |-> <<>>, suffix |-> <<>>]

NoResponse ==
    [status |-> 0, kind |-> "none", source |-> "", transcript_original |-> <<>>,
     transcript_english |-> <<>>, translation_status |-> "", challenge |-> FALSE]

\* a request that has not arrived
IdleReq ==
    [pc |-> "idle", endpoint |-> "", pid |-> "", method |-> "",
     authorization |-> [type |-> "NoneType", val |-> <<>>], youtube_value |-> <<>>, filename |-> <<>>,
     content_type |-> <<>>, addr |-> "", tmp_saved |-> NoPath, audio_path |-> NoPath,
     audio_format |-> [container |-> "", codec |-> "", channels |-> 0, rate |-> 0],
     created |-> {}, full_text |-> <<>>, translator |-> "none", failed |-> "none",
     resp |-> NoResponse, to_clean |-> <<>>, stages |-> <<>>, model |-> 0,
     cleaned |-> <<>>, unlink_errors |-> {}]

\* no WhisperModel instance
NoModel == 0

\* a server process before its startup: the cache of get_whisper_model is empty
NotStarted == [started |-> FALSE, cache |-> NoModel, built |-> 0]

\* config.py, line 10: the default of STT_BACKEND, the only backend transcribe_file knows
FasterWhisper == "faster-whisper"

\* the server processes are not started and no request has arrived
PipeStart ==
    /\ req = [r \in Reqs |-> IdleReq]
    /\ fs = {}
    /\ loop = [p \in Pids |-> 0]
    /\ whisper = [p \in Pids |-> NotStarted]

PipeIdle == PipeStart /\ stt_backend = FasterWhisper

-----------------------------------------------------------------------------
(* SpecTime: _parse_yt_time applied to every offset string of the bound.   *)

TimeAlphabet == {"0", "1", "2", "3", "5", "h", "m", "s", "M", "x"}

Str_55    == <<"5", "5">>
Str_55s   == <<"5", "5", "s">>
Str_1m30s == <<"1", "m", "3", "0", "s">>
Str_2h3m  == <<"2", "h", "3", "m">>
Str_0     == <<"0">>

TimeInputs == StringsUpTo(TimeAlphabet, MaxTimeLen) \cup {Str_1m30s}

TimeInit ==
    /\ t_in \in TimeInputs
    /\ t_pc = "call"
    /\ t_out = NoneV
    /\ TrIdle
    /\ YtIdle
    /\ PipeIdle

TimeCall ==
    /\ t_pc = "call"
    /\ t_out' = _parse_yt_time(t_in)
    /\ t_pc' = "returned"
    /\ UNCHANGED <<t_in, trvars, ytvars, ppvars>>

TimeNext == TimeCall

SpecTime == TimeInit /\ [][TimeNext]_vars

-----------------------------------------------------------------------------
(* Properties of _parse_yt_time.                                           *)

\* positions where a maximal digit run of s starts
RunStarts(s) == {i \in 1..Len(s) : s[i] \in Digits /\ (i = 1 \/ s[i - 1] \notin Digits)}

\* the character that follows the digit run starting at i, lower-cased ("" at the end)
Suffix(s, i) == LET j == RunEnd(s, i) IN IF j < Len(s) THEN LowerChar(s[j + 1]) ELSE ""

RunValue(s, i) == int(SubSeq(s, i, RunEnd(s, i)))

\* weight of a digit group by the character after it: h counts 3600, m counts 60,
\* s counts 1; a group with no unit suffix counts `bare`
Weight(u, bare) ==
    IF u = "h" THEN 3600 ELSE IF u = "m" THEN 60 ELSE IF u = "s" THEN 1 ELSE bare

RECURSIVE SumRuns(_, _, _)
SumRuns(s, starts, bare) ==
    IF starts = {} THEN 0
    ELSE LET i == CHOOSE k \in starts : TRUE
         IN RunValue(s, i) * Weight(Suffix(s, i), bare) + SumRuns(s, starts \ {i}, bare)

\* every digit group counts, one with no unit suffix as seconds
ClaimedSeconds(s) == SumRuns(s, RunStarts(s), 1)

\* only the digit groups with a unit suffix count
SuffixedSeconds(s) == SumRuns(s, RunStarts(s), 0)

FirstRunSeconds(s) ==
    IF RunStarts(s) = {} THEN 0
    ELSE RunValue(s, CHOOSE i \in RunStarts(s) : \A k \in RunStarts(s) : i <= k)

TimeExamples ==
    /\ t_in = Str_55    => t_out = 55
    /\ t_in = Str_55s   => t_out = 55
    /\ t_in = Str_1m30s => t_out = 90
    /\ t_in = Str_2h3m  => t_out = 7380
    /\ t_in = Str_0     => t_out = 0

\* C10 (as stated): _parse_yt_time returns 3600*h + 60*m + s over all digit groups of
\* the offset string, a digit group with no unit suffix counting as seconds; the five
\* examples hold and the result is never negative.
C10_EveryGroupCounts ==
    t_pc = "returned" =>
        /\ t_out = ClaimedSeconds(t_in)
        /\ TimeExamples
        /\ t_out >= 0

\* C10 (amended): _parse_yt_time returns 3600*h + 60*m + s over the digit groups that
\* are directly followed by a unit h, m or s (either case); digit groups with no unit
\* suffix are ignored, except that when this sum is 0 (an all-digit string included)
\* the result is the value of the first digit group, or 0 when there is none.  The
\* five examples hold and the result is never negative.
C10_SuffixedGroupsOrFirstRun ==
    t_pc = "returned" =>
        /\ t_out = (IF SuffixedSeconds(t_in) > 0 THEN SuffixedSeconds(t_in)
                    ELSE FirstRunSeconds(t_in))
        /\ TimeExamples
        /\ t_out >= 0

\* a compound offset with hours and minutes has been parsed
C10_Witness == t_pc = "returned" /\ t_in = Str_2h3m /\ t_out = 7380

-----------------------------------------------------------------------------
(* translate.py: translate_text_with_backoff, deepl_translate,             *)
(* google_translate.                                                       *)

\* translate_text_with_backoff(..., max_retries=3)
max_retries == 3

\* deepl_translate and google_translate are called with max_retries=1
provider_max_retries == 1

\* the initial value of delay, in translate_text_with_backoff and in both providers
initial_delay == 1

EN    == <<"E", "N">>
EN_GB == <<"E", "N", "-", "G", "B">>
PT    == <<"P", "T">>
PT_PT == <<"P", "T", "-", "P", "T">>

\* a mistaken normalisation: the code is compared without being upper-cased first
normalise_target_without_upper(code) ==
    IF code = EN THEN EN_GB ELSE IF code = PT THEN PT_PT ELSE code

\* lines 83-87: upper-case, then EN becomes EN-GB and PT becomes PT-PT
normalise_target(code) ==
    LET target_language == upper(code) IN
    IF target_language = EN THEN EN_GB
    ELSE IF target_language = PT THEN PT_PT
    ELSE target_language

\* a mistaken guard: only the emptiness of text is tested
passes_through_if_falsy(text) == ~Truthy(text)

\* line 80: `if not text or not isinstance(text, str)`
passes_through(text) == ~Truthy(text) \/ ~isinstance_str(text)

\* a mistaken loop: one iteration more than range(1, max_retries + 1) has
has_next_attempt_off_by_one(attempt) == attempt + 1 <= max_retries + 1

\* line 90: `for attempt in range(1, max_retries + 1)` has an iteration after `attempt`
has_next_attempt(attempt) == attempt + 1 <= max_retries

\* a mistaken fallback: a DeepL failure ends the outer attempt
after_deepl_failure_no_fallback == "backoff"

\* lines 96-99: after a DeepL failure, Google is tried within the same outer attempt
after_deepl_failure == "google"

\* what a provider can answer with
ProviderTexts == {<<"h", "i">>, <<"o", "k">>}

\* how deepl_translate(text, lang, max_retries=1) can end: it returns the translation;
\* translate_text raises DeepLException or ValueError, which is caught, followed by
\* one sleep and RateLimitError; or another exception leaves it at once
DeepLOutcomes == {"ok", "caught", "uncaught"}

\* how google_translate(text, lang, max_retries=1) can end: it returns the translation;
\* client.translate raises, which is caught, followed by one sleep and RateLimitError;
\* or translate.Client() raises and leaves it at once
GoogleOutcomes == {"ok", "caught", "uncaught"}

ProviderCall(provider, outcome, ret) ==
    [provider |-> provider, text |-> tr_text, lang |-> tr_lang, attempt |-> tr_attempt,
     ok |-> (outcome = "ok"), ret |-> ret]

\* the time.sleep(delay) of a provider's except branch, taken once as max_retries=1
ProviderSleeps(provider, outcome) ==
    IF outcome = "caught" /\ provider_max_retries = 1
    THEN <<[by |-> provider, secs |-> initial_delay, attempt |-> tr_attempt]>>
    ELSE <<>>

\* lines 80-89: the guard, the normalisation of the code, the first iteration
translate_text_with_backoff ==
    /\ tr_pc = "call"
    /\ IF passes_through(tr_text)
       THEN /\ tr_result' = tr_text
            /\ tr_pc' = "returned"
            /\ UNCHANGED <<tr_lang, tr_delay, tr_attempt>>
       ELSE /\ tr_lang' = normalise_target(tr_target)
            /\ tr_delay' = initial_delay
            /\ tr_attempt' = 1
            /\ tr_pc' = "attempt"
            /\ UNCHANGED tr_result
    /\ UNCHANGED <<tr_text, tr_target, tr_key, tr_calls, tr_sleeps, tvars, ytvars, ppvars>>

\* a mistaken test: DeepL is tried whether or not a key is configured
deepl_always(key) == TRUE

\* line 93: `if settings.DEEPL_API_KEY`
deepl_configured(key) == key

\* lines 93-97 and 25-50: DeepL is tried when a key is configured
deepl_translate ==
    /\ tr_pc = "attempt"
    /\ deepl_configured(tr_key)
    /\ \E outcome \in DeepLOutcomes, ret \in ProviderTexts :
        /\ outcome # "ok" => ret = CHOOSE r \in ProviderTexts : TRUE
        /\ tr_calls' = Append(tr_calls, ProviderCall("deepl", outcome, ret))
        /\ tr_sleeps' = tr_sleeps \o ProviderSleeps("deepl", outcome)
        /\ IF outcome = "ok"
           THEN tr_result' = PyStr(ret) /\ tr_pc' = "returned"
           ELSE tr_pc' = after_deepl_failure /\ UNCHANGED tr_result
    /\ UNCHANGED <<tr_text, tr_target, tr_key, tr_attempt, tr_delay, tr_lang, tvars, ytvars, ppvars>>

\* lines 98-99 and 53-72: Google is tried when no key is configured or DeepL failed
google_translate ==
    /\ \/ tr_pc = "google"
       \/ tr_pc = "attempt" /\ ~deepl_configured(tr_key)
    /\ \E outcome \in GoogleOutcomes, ret \in ProviderTexts :
        /\ outcome # "ok" => ret = CHOOSE r \in ProviderTexts : TRUE
        /\ tr_calls' = Append(tr_calls, ProviderCall("google", outcome, ret))
        /\ tr_sleeps' = tr_sleeps \o ProviderSleeps("google", outcome)
        /\ IF outcome = "ok"
           THEN tr_result' = PyStr(ret) /\ tr_pc' = "returned"
           ELSE tr_pc' = "backoff" /\ UNCHANGED tr_result
    /\ UNCHANGED <<tr_text, tr_target, tr_key, tr_attempt, tr_delay, tr_lang, tvars, ytvars, ppvars>>

\* lines 101-107: the except branch of the outer attempt sleeps and doubles the delay;
\* then the next iteration starts, or the loop is over and RateLimitError is raised
backoff ==
    /\ tr_pc = "backoff"
    /\ tr_sleeps' = Append(tr_sleeps, [by |-> "backoff", secs |-> tr_delay, attempt |-> tr_attempt])
    /\ tr_delay' = tr_delay * 2
    /\ IF has_next_attempt(tr_attempt)
       THEN /\ tr_attempt' = tr_attempt + 1
            /\ tr_pc' = "attempt"
            /\ UNCHANGED tr_result
       ELSE /\ tr_result' = PyExc("RateLimitError")
            /\ tr_pc' = "raised"
            /\ UNCHANGED tr_attempt
    /\ UNCHANGED <<tr_text, tr_target, tr_key, tr_lang, tr_calls, tvars, ytvars, ppvars>>

-----------------------------------------------------------------------------
(* SpecTr: translate_text_with_backoff on every text and code of the bound, *)
(* with and without a DeepL key, under every behaviour of the providers.    *)

Str_hola == <<"h", "o", "l", "a">>

TrTexts == {PyStr(<<>>), PyStr(Str_hola), PyNone, PyInt(<<"0">>), PyInt(<<"7">>)}

CodeAlphabet == {"e", "n", "E", "N", "p", "t"}

NamedCodes == {<<"f", "r">>, <<"F", "R">>, <<"P", "T">>, <<"P", "t">>, EN_GB, PT_PT,
               <<"p", "t", "-", "b", "r">>, <<"z", "h">>}

TrCodes == StringsUpTo(CodeAlphabet, MaxCodeLen) \cup NamedCodes

TrInit ==
    /\ tr_text \in TrTexts
    /\ tr_target \in TrCodes
    /\ tr_key \in BOOLEAN
    /\ tr_pc = "call"
    /\ tr_attempt = 0
    /\ tr_delay = 0
    /\ tr_lang = <<>>
    /\ tr_calls = <<>>
    /\ tr_sleeps = <<>>
    /\ tr_result = PyNone
    /\ TimeIdle
    /\ YtIdle
    /\ PipeIdle

TrNext ==
    \/ translate_text_with_backoff
    \/ deepl_translate
    \/ google_translate
    \/ backoff

SpecTr == TrInit /\ [][TrNext]_vars

-----------------------------------------------------------------------------
(* Properties of translate_text_with_backoff.                              *)

TrDone == tr_pc \in {"returned", "raised"}

\* the text is a non-empty string
TrTranslatable == tr_text.type = "str" /\ tr_text.val # <<>>

CallsOf(provider) == {i \in 1..Len(tr_calls) : tr_calls[i].provider = provider}

EveryCallFailed == \A i \in 1..Len(tr_calls) : ~tr_calls[i].ok

\* C4: for non-empty text, when every call to both providers fails, the function makes
\* exactly 3 outer attempts (one Google call in each, and one DeepL call in each when a
\* key is configured) and then raises RateLimitError; it returns no value and never
\* starts a 4th attempt.
C4_ThreeAttemptsThenRaise ==
    /\ tr_attempt <= 3
    /\ \A i \in 1..Len(tr_calls) : tr_calls[i].attempt <= 3
    /\ (TrDone /\ TrTranslatable /\ EveryCallFailed) =>
          /\ tr_pc = "raised"
          /\ tr_result = PyExc("RateLimitError")
          /\ tr_attempt = 3
          /\ {tr_calls[i].attempt : i \in CallsOf("google")} = {1, 2, 3}
          /\ Cardinality(CallsOf("google")) = 3
          /\ Cardinality(CallsOf("deepl")) = (IF tr_key THEN 3 ELSE 0)

\* both providers failed in each of the three outer attempts and the function gave up
C4_Witness ==
    /\ tr_pc = "raised" /\ tr_key /\ Len(tr_calls) = 6 /\ EveryCallFailed
    /\ tr_result = PyExc("RateLimitError")

\* C5: for non-empty text, when DeepL fails on every call or is not configured and
\* Google succeeds, the function returns Google's result within the first outer
\* attempt (no backoff sleep, no second attempt) and does not raise.
C5_FallbackToGoogle ==
    (/\ TrDone /\ TrTranslatable
     /\ \A i \in CallsOf("deepl") : ~tr_calls[i].ok
     /\ \A i \in CallsOf("google") : tr_calls[i].ok) =>
        /\ tr_pc = "returned"
        /\ tr_attempt = 1
        /\ Cardinality(CallsOf("google")) = 1
        /\ tr_calls[Len(tr_calls)].provider = "google"
        /\ tr_result = PyStr(tr_calls[Len(tr_calls)].ret)
        /\ \A k \in 1..Len(tr_sleeps) : tr_sleeps[k].by # "backoff"

\* DeepL was configured and failed, Google answered in the same attempt
C5_Witness ==
    /\ tr_pc = "returned" /\ tr_key /\ Len(tr_calls) = 2
    /\ tr_calls[1].provider = "deepl" /\ ~tr_calls[1].ok
    /\ tr_calls[2].provider = "google" /\ tr_calls[2].ok
    /\ tr_result = PyStr(tr_calls[2].ret)

\* C6: when the text is empty or not a string, the function returns that same value
\* unchanged, calls neither provider and never sleeps.
C6_PassThrough ==
    (tr_pc \notin {"idle", "call"} /\ (tr_text.type # "str" \/ tr_text.val = <<>>)) =>
        /\ tr_pc = "returned"
        /\ tr_result = tr_text
        /\ tr_calls = <<>>
        /\ tr_sleeps = <<>>

\* a non-string value that is not falsy was handed back
C6_Witness ==
    /\ tr_pc = "returned" /\ tr_text = PyInt(<<"7">>) /\ tr_result = tr_text
    /\ tr_calls = <<>>

\* the code the claim expects for a requested code: unchanged unless en, EN or pt
ClaimedTarget(code) ==
    IF code \in {<<"e", "n">>, <<"E", "N">>} THEN EN_GB
    ELSE IF code = <<"p", "t">> THEN PT_PT
    ELSE code

\* C7 (as stated): the code handed to the providers is EN-GB when the requested code
\* is en or EN, PT-PT when it is pt, and otherwise the requested code unchanged.
C7_OtherCodesUnchanged ==
    \A i \in 1..Len(tr_calls) : tr_calls[i].lang = ClaimedTarget(tr_target)

\* c is the upper-case form of the requested code: same length, every lower-case
\* letter replaced by its capital, every other character kept
IsUpperCaseOf(c, code) ==
    /\ Len(c) = Len(code)
    /\ \A k \in 1..Len(code) :
          IF IsLower(code[k])
          THEN \E n \in 1..26 : LowerLetters[n] = code[k] /\ UpperLetters[n] = c[k]
          ELSE c[k] = code[k]

\* C7 (amended): the code handed to the providers is EN-GB when the requested code is
\* en in any letter case, PT-PT when it is pt in any letter case, and for any other
\* requested code it is that code in upper case (unchanged only when the requested
\* code has no lower-case letter).
C7_UpperCasedCodes ==
    \A i \in 1..Len(tr_calls) :
        LET lang == tr_calls[i].lang IN
        IF tr_target \in {<<"e", "n">>, <<"E", "N">>, <<"E", "n">>, <<"e", "N">>}
        THEN lang = EN_GB
        ELSE IF tr_target \in {<<"p", "t">>, <<"P", "T">>, <<"P", "t">>, <<"p", "T">>}
        THEN lang = PT_PT
        ELSE IsUpperCaseOf(lang, tr_target)

\* a provider was called for the requested code fr and was handed FR
C7_Witness ==
    /\ tr_target = <<"f", "r">>
    /\ Len(tr_calls) > 0
    /\ tr_calls[1].lang = <<"F", "R">>

\* 2 to the power n
RECURSIVE Pow2(_)
Pow2(n) == IF n = 0 THEN 1 ELSE 2 * Pow2(n - 1)

\* the time.sleep calls of the except branch of the outer attempt, in order
BackoffSleeps == SelectSeq(tr_sleeps, LAMBDA sl : sl.by = "backoff")

\* every provider call of outer attempt a failed, and there was one
AttemptFailed(a) ==
    /\ \E i \in 1..Len(tr_calls) : tr_calls[i].attempt = a
    /\ \A i \in 1..Len(tr_calls) : tr_calls[i].attempt = a => ~tr_calls[i].ok

\* the part of C19 that holds: the k-th backoff sleep follows the k-th failed outer
\* attempt and lasts 1, 2, 4 seconds
BackoffDelaysDouble ==
    \A k \in 1..Len(BackoffSleeps) :
        /\ BackoffSleeps[k].attempt = k
        /\ BackoffSleeps[k].secs = Pow2(k - 1)
        /\ AttemptFailed(k)

\* C19: the backoff delay starts at 1 second and doubles after every failed outer
\* attempt (1, 2, 4, ...), and every backoff sleep is followed by a retry of the whole
\* attempt sequence: a sleep happens only when both providers failed in the current
\* outer attempt and another outer attempt follows it.
C19_SleepOnlyBeforeRetry ==
    /\ BackoffDelaysDouble
    /\ \A k \in 1..Len(tr_sleeps) :
          /\ tr_sleeps[k].by = "backoff"
          /\ AttemptFailed(tr_sleeps[k].attempt)
          /\ tr_sleeps[k].attempt < max_retries
          /\ tr_pc \in {"attempt", "google"} => tr_attempt > tr_sleeps[k].attempt

\* the function slept 4 seconds after the third failed attempt and then raised
SleptBeforeGivingUp ==
    /\ tr_pc = "raised"
    /\ Len(BackoffSleeps) = 3
    /\ BackoffSleeps[3] = [by |-> "backoff", secs |-> 4, attempt |-> 3]

\* DeepL slept a second after its failure, before Google was tried in the same attempt
SleptBeforeFallback ==
    /\ tr_pc = "google"
    /\ tr_sleeps = <<[by |-> "deepl", secs |-> 1, attempt |-> 1]>>

\* C20: in each outer attempt the primary provider is called at most once and only if
\* a primary credential is configured, the secondary provider is called at most once
\* and only after the primary failed or was skipped, and the function returns the
\* result of the first provider call that succeeds without making any further provider
\* call; over one call of the function each provider is invoked at most 3 times.
C20_ProviderCalls ==
    /\ \A a \in 1..max_retries, p \in {"deepl", "google"} :
          Cardinality({i \in CallsOf(p) : tr_calls[i].attempt = a}) <= 1
    /\ CallsOf("deepl") # {} => tr_key
    /\ \A i \in CallsOf("google") :
          IF tr_key
          THEN /\ i > 1
               /\ tr_calls[i - 1].provider = "deepl"
               /\ tr_calls[i - 1].attempt = tr_calls[i].attempt
               /\ ~tr_calls[i - 1].ok
          ELSE \A k \in 1..Len(tr_calls) : tr_calls[k].attempt = tr_calls[i].attempt => k = i
    /\ \A i \in 1..Len(tr_calls) :
          tr_calls[i].ok =>
              /\ i = Len(tr_calls)
              /\ tr_pc = "returned"
              /\ tr_result = PyStr(tr_calls[i].ret)
    /\ (tr_pc = "returned" /\ TrTranslatable) =>
          (tr_calls # <<>> /\ tr_calls[Len(tr_calls)].ok)
    /\ Cardinality(CallsOf("deepl")) <= 3
    /\ Cardinality(CallsOf("google")) <= 3
    /\ \A i \in 1..Len(tr_calls) : tr_calls[i].attempt \in 1..3

\* both providers failed in the first attempt and DeepL answered in the second: three
\* calls, the last one returned
C20_Witness ==
    /\ tr_pc = "returned" /\ tr_key
    /\ Len(tr_calls) = 3
    /\ tr_calls[1].provider = "deepl" /\ ~tr_calls[1].ok /\ tr_calls[1].attempt = 1
    /\ tr_calls[2].provider = "google" /\ ~tr_calls[2].ok /\ tr_calls[2].attempt = 1
    /\ tr_calls[3].provider = "deepl" /\ tr_calls[3].ok /\ tr_calls[3].attempt = 2
    /\ tr_result = PyStr(tr_calls[3].ret)

-----------------------------------------------------------------------------
(* downloader.py: parse_youtube_value, download_youtube_best_audio.        *)

\* the characters of a video ID: [0-9A-Za-z_-]
IdChars == Digits \cup {LowerLetters[i] : i \in 1..26} \cup {UpperLetters[i] : i \in 1..26}
           \cup {"_", "-"}

\* the length of a video ID: {11} in both regular expressions
id_length == 11

\* re.fullmatch(r"[0-9A-Za-z_-]{11}", s)
fullmatch_id(s) == Len(s) = id_length /\ \A i \in 1..Len(s) : s[i] \in IdChars

\* the URL forms of _YT_ID_RE
YtPrefixes == { <<"y", "o", "u", "t", "u", ".", "b", "e", "/">>,
                <<"y", "o", "u", "t", "u", "b", "e", ".", "c", "o", "m", "/", "w", "a", "t", "c", "h", "?", "v", "=">>,
                <<"y", "o", "u", "t", "u", "b", "e", ".", "c", "o", "m", "/", "e", "m", "b", "e", "d", "/">>,
                <<"y", "o", "u", "t", "u", "b", "e", ".", "c", "o", "m", "/", "s", "h", "o", "r", "t", "s", "/">> }

\* _YT_ID_RE matches at position i of s: one of the URL forms, then 11 ID characters
id_re_matches_at(s, i) ==
    \E pre \in YtPrefixes :
        /\ i + Len(pre) + id_length - 1 <= Len(s)
        /\ SubSeq(s, i, i + Len(pre) - 1) = pre
        /\ \A k \in 1..id_length : s[i + Len(pre) - 1 + k] \in IdChars

\* _YT_ID_RE.search(s): group 1 of the leftmost match, or None
id_re_search(s) ==
    IF \E i \in 1..Len(s) : id_re_matches_at(s, i)
    THEN LET i == CHOOSE j \in 1..Len(s) :
                     id_re_matches_at(s, j) /\ \A k \in 1..(j - 1) : ~id_re_matches_at(s, k)
             pre == CHOOSE q \in YtPrefixes : SubSeq(s, i, i + Len(q) - 1) = q
         IN PyStr(SubSeq(s, i + Len(pre), i + Len(pre) + id_length - 1))
    ELSE PyNone

\* urlparse(value).query: what follows the first "?" of the part before the first "#"
url_query(value) == tail_of(head_of(value, "#"), "?")

\* the replace('+', ' ') of parse_qsl (the strings of the model hold no "%" escape,
\* on which unquote would act)
PlusToSpace(s) == [i \in 1..Len(s) |-> IF s[i] = "+" THEN " " ELSE s[i]]

\* parse_qsl(qs): the (name, value) pairs of the fields name=value whose value is not
\* blank, in order; a field without "=" is dropped
RECURSIVE PairsOf(_)
PairsOf(fields) ==
    IF Len(fields) = 0 THEN <<>>
    ELSE LET f == fields[1] IN
         (IF find(f, "=") # 0 /\ Len(tail_of(f, "=")) > 0
          THEN << <<PlusToSpace(head_of(f, "=")), PlusToSpace(tail_of(f, "="))>> >>
          ELSE <<>>) \o PairsOf(Tail(fields))

\* parse_qs(query), kept as the ordered (name, value) pairs that parse_qsl yields
parse_qs(query) == PairsOf(split(query, "&"))

\* `key in qs`
qs_has(qs, key) == \E i \in 1..Len(qs) : qs[i][1] = key

\* qs[key][0]: the value of the first pair named key
qs_first(qs, key) ==
    LET i == CHOOSE j \in 1..Len(qs) : qs[j][1] = key /\ \A k \in 1..(j - 1) : qs[k][1] # key
    IN qs[i][2]

K_v     == <<"v">>
K_t     == <<"t">>
K_start == <<"s", "t", "a", "r", "t">>

\* a mistaken reading of the start time: the start= parameter is not looked at
start_of_t_only(qs) ==
    IF qs_has(qs, K_t) THEN Some(_parse_yt_time(qs_first(qs, K_t))) ELSE Nothing

\* lines 88-93 and 101-106: the start time from t=, else from start=, else None
start_of(qs) ==
    IF qs_has(qs, K_t) THEN Some(_parse_yt_time(qs_first(qs, K_t)))
    ELSE IF qs_has(qs, K_start) THEN Some(_parse_yt_time(qs_first(qs, K_start)))
    ELSE Nothing

Http  == <<"h", "t", "t", "p", ":", "/", "/">>
Https == <<"h", "t", "t", "p", "s", ":", "/", "/">>

parse_youtube_value(raw) ==
    LET value == strip(raw) IN
    IF startswith(value, Http) \/ startswith(value, Https)
    THEN \* Case 1: a full URL
         LET qs == parse_qs(url_query(value))
             vid == IF qs_has(qs, K_v) THEN PyStr(qs_first(qs, K_v)) ELSE id_re_search(value)
         IN [vid |-> vid, start |-> start_of(qs)]
    ELSE IF find(value, "&") # 0
    THEN \* Case 2: ID&t=...
         LET head == head_of(value, "&")
             tail == tail_of(value, "&")
         IN [vid |-> IF fullmatch_id(head) THEN PyStr(head) ELSE id_re_search(value),
             start |-> start_of(parse_qs(tail))]
    ELSE IF fullmatch_id(value)
    THEN \* Case 3: a plain ID
         [vid |-> PyStr(value), start |-> Nothing]
    ELSE [vid |-> id_re_search(value), start |-> Nothing]

\* line 135: the canonical URL
CanonicalPrefix == <<"h", "t", "t", "p", "s", ":", "/", "/", "w", "w", "w", ".", "y", "o", "u", "t", "u", "b", "e", ".", "c", "o", "m", "/", "w", "a", "t", "c", "h", "?", "v", "=">>
canonical_url(vid) == CanonicalPrefix \o vid

\* str(n) for an int n >= 0
RECURSIVE str(_)
str(n) ==
    LET last == CHOOSE c \in Digits : DigitVal(c) = n % 10 IN
    IF n < 10 THEN <<last>> ELSE str(n \div 10) \o <<last>>

\* `sub in s`
contains(s, sub) ==
    \E i \in 1..(Len(s) - Len(sub) + 1) : SubSeq(s, i, i + Len(sub) - 1) = sub

\* the cookies file named by YTDLP_COOKIES and the copy in the temporary directory
CookiesSrc == <<"/", "c", "o", "o", "k", "i", "e", "s", ".", "t", "x", "t">>
CookiesDst == <<"/", "t", "m", "p", "/", "y", "t", "d", "l", "p", "_", "c", "o", "o", "k", "i", "e", "s", ".", "t", "x", "t">>

\* lines 56-68: None without a cookies file; else the copy, or the file itself when
\* copyfile raises
_writable_cookies_path(env) ==
    IF ~Truthy(env.COOKIES_PATH) \/ ~env.src_is_file THEN PyNone
    ELSE IF env.copy_ok THEN PyStr(CookiesDst)
    ELSE PyStr(CookiesSrc)

\* line 140: bool(cookiefile and os.path.isfile(cookiefile))
using_cookies(cookiefile, env) ==
    /\ Truthy(cookiefile)
    /\ \/ cookiefile.val = CookiesSrc /\ env.src_is_file
       \/ cookiefile.val = CookiesDst /\ env.src_is_file /\ env.copy_ok

\* lines 145 and 147: the profiles with and without cookies
ProfileWithCookies == <<"y", "o", "u", "t", "u", "b", "e", ":", "p", "l", "a", "y", "e", "r", "_", "c", "l", "i", "e", "n", "t", "=", "w", "e", "b", ",", "i", "o", "s", ",", "m", "w", "e", "b", ";", "p", "l", "a", "y", "e", "r", "_", "s", "k", "i", "p", "=", "w", "e", "b", "p", "a", "g", "e">>
ProfileWithoutCookies == <<"y", "o", "u", "t", "u", "b", "e", ":", "p", "l", "a", "y", "e", "r", "_", "c", "l", "i", "e", "n", "t", "=", "a", "n", "d", "r", "o", "i", "d", ",", "w", "e", "b", ",", "i", "o", "s", ",", "m", "w", "e", "b", ";", "p", "l", "a", "y", "e", "r", "_", "s", "k", "i", "p", "=", "w", "e", "b", "p", "a", "g", "e">>

\* lines 142-149: the setting when it is not blank, else the profile for the cookies
extractor_args(setting, cookies) ==
    IF Len(strip(setting)) > 0 THEN strip(setting)
    ELSE IF cookies THEN ProfileWithCookies ELSE ProfileWithoutCookies

\* a mistaken test: a start time of 0 is passed on as well
wants_section_if_present(start) == start.some

\* line 171: `start_sec is not None and start_sec > 0`
wants_section(start) == start.some /\ start.n > 0

\* line 172: f"*{start_sec}-"
download_sections(n) == <<"*">> \o str(n) \o <<"-">>

\* lines 130-174: the reference is parsed; without an ID ValueError is raised, otherwise
\* the yt-dlp command is built for the canonical URL (with --cookies when a cookies
\* file is used, with --download-sections when the start time is positive) and handed
\* to subprocess.run
download_youtube_best_audio ==
    /\ yt_pc = "call"
    /\ LET parsed == parse_youtube_value(yt_value)
           cookiefile == _writable_cookies_path(yt_env)
           cookies == using_cookies(cookiefile, yt_env)
       IN
       /\ yt_vid' = parsed.vid
       /\ yt_start' = parsed.start
       /\ IF ~Truthy(parsed.vid)
          THEN /\ yt_pc' = "raised"
               /\ yt_result' = PyExc("ValueError")
               /\ UNCHANGED yt_cmd
          ELSE /\ yt_pc' = "running"
               /\ yt_cmd' = [url |-> canonical_url(parsed.vid.val),
                             extractor_args |-> extractor_args(yt_env.YT_EXTRACTOR_ARGS, cookies),
                             cookies |-> IF cookies THEN cookiefile ELSE PyNone,
                             sections |-> IF wants_section(parsed.start)
                                          THEN PyStr(download_sections(parsed.start.n))
                                          ELSE PyNone]
               /\ UNCHANGED yt_result
    /\ UNCHANGED <<yt_ref, yt_value, yt_env, yt_proc, tvars, trvars, ppvars>>

\* the message of yt-dlp when YouTube asks for a sign-in, with the typographic
\* apostrophe U+2019 (as yt-dlp prints it) and with the ASCII apostrophe
Msg_bot_typographic == <<"S", "i", "g", "n", " ", "i", "n", " ", "t", "o", " ", "c", "o", "n", "f", "i", "r", "m", " ", "y", "o", "u", "U+2019", "r", "e", " ", "n", "o", "t", " ", "a", " ", "b", "o", "t">>
Msg_bot_ascii == <<"S", "i", "g", "n", " ", "i", "n", " ", "t", "o", " ", "c", "o", "n", "f", "i", "r", "m", " ", "y", "o", "u", "'", "r", "e", " ", "n", "o", "t", " ", "a", " ", "b", "o", "t">>

\* str(e) of CalledProcessError
Msg_exit_status == <<"r", "e", "t", "u", "r", "n", "e", "d", " ", "n", "o", "n", "-", "z", "e", "r", "o", " ", "e", "x", "i", "t", " ", "s", "t", "a", "t", "u", "s", " ", "1", ".">>

\* how yt-dlp can fail: exit status 1 with what it wrote to stderr and to stdout.  The
\* messages are the two above, the second one in capitals, the first one with U+2019
\* read as cp1252 (U+00E2 U+20AC U+2122), and another failure, between blanks
Diagnostics ==
    {[returncode |-> 1, stderr |-> m, stdout |-> <<>>] :
         m \in {Msg_bot_typographic, Msg_bot_ascii,
                <<"S", "I", "G", "N", " ", "I", "N", " ", "T", "O", " ", "C", "O", "N", "F", "I", "R", "M", " ", "Y", "O", "U", "'", "R", "E", " ", "N", "O", "T", " ", "A", " ", "B", "O", "T">>,
                <<"S", "i", "g", "n", " ", "i", "n", " ", "t", "o", " ", "c", "o", "n", "f", "i", "r", "m", " ", "y", "o", "u", "U+00E2", "U+20AC", "U+2122", "r", "e", " ", "n", "o", "t", " ", "a", " ", "b", "o", "t">>,
                <<" ", "V", "i", "d", "e", "o", " ", "u", "n", "a", "v", "a", "i", "l", "a", "b", "l", "e", " ">>}}
    \cup {[returncode |-> 1, stderr |-> <<>>, stdout |-> Msg_bot_ascii],
          [returncode |-> 1, stderr |-> <<>>, stdout |-> <<>>]}

\* line 182: the two texts looked for, as the source file has them
BotText_1 == <<"c", "o", "n", "f", "i", "r", "m", " ", "y", "o", "u", "U+00E2", "U+20AC", "U+2122", "r", "e", " ", "n", "o", "t", " ", "a", " ", "b", "o", "t">>
BotText_2 == <<"c", "o", "n", "f", "i", "r", "m", " ", "y", "o", "u", "'", "r", "e", " ", "n", "o", "t", " ", "a", " ", "b", "o", "t">>

\* lines 183-186
HumanVerification == <<"Y", "o", "u", "T", "u", "b", "e", " ", "r", "e", "q", "u", "i", "r", "e", "s", " ", "h", "u", "m", "a", "n", " ", "v", "e", "r", "i", "f", "i", "c", "a", "t", "i", "o", "n", " ", "f", "r", "o", "m", " ", "t", "h", "i", "s", " ", "s", "e", "r", "v", "e", "r", ".", " ", "R", "e", "t", "r", "y", " ", "l", "a", "t", "e", "r", ",", " ", "p", "r", "o", "v", "i", "d", "e", " ", "c", "o", "o", "k", "i", "e", "s", ".", "t", "x", "t", ",", " ", "o", "r", " ", "c", "h", "a", "n", "g", "e", " ", "e", "g", "r", "e", "s", "s", " ", "I", "P", ".">>

\* an exception with its message
Raised(type, message) == [type |-> type, val |-> message]

\* line 179: (e.stderr or e.stdout or str(e)).strip()
diagnostic(e) ==
    strip(IF e.stderr # <<>> THEN e.stderr
          ELSE IF e.stdout # <<>> THEN e.stdout
          ELSE Msg_exit_status)

\* lines 178-188: the exception raised for CalledProcessError e
error_of(e) ==
    LET msg == diagnostic(e)
        low == lower(msg)
    IN IF contains(low, BotText_1) \/ contains(low, BotText_2)
       THEN Raised("ValueError", HumanVerification)
       ELSE Raised("ValueError", msg)

\* lines 176-193: yt-dlp ends; a non-zero exit status becomes ValueError, otherwise the
\* newest file of the video is returned
subprocess_run ==
    /\ yt_pc = "running"
    /\ \/ yt_pc' = "returned" /\ yt_proc' = [NotRun EXCEPT !.returncode = 0] /\ UNCHANGED yt_result
       \/ \E e \in Diagnostics :
             /\ yt_pc' = "raised"
             /\ yt_proc' = e
             /\ yt_result' = error_of(e)
    /\ UNCHANGED <<yt_ref, yt_value, yt_vid, yt_start, yt_env, yt_cmd, tvars, trvars, ppvars>>

-----------------------------------------------------------------------------
(* SpecYT: download_youtube_best_audio on references of every shape, for    *)
(* well-formed and malformed IDs and every offset string of the bound.      *)

Id_Q80  == <<"Q", "8", "0", "-", "p", "w", "D", "r", "C", "V", "I">>
Id_mix  == <<"_", "a", "1", "-", "B", "2", "_", "c", "3", "-", "Z">>

ValidIds == {Id_Q80, Id_mix}

\* too short, too long, and with a character that no ID has
MalformedIds == {<<"a", "b", "c">>, <<"Q", "8", "0", "-", "p", "w", "D", "r", "C", "V", "I", "x">>, <<"Q", "8", "0", ".", "p", "w", "D", "r", "C", "V", "I">>}

\* the part of a reference before the ID, and what separates the ID from the offset
RefShapes == {
    [prefix |-> <<"h", "t", "t", "p", "s", ":", "/", "/", "w", "w", "w", ".", "y", "o", "u", "t", "u", "b", "e", ".", "c", "o", "m", "/", "w", "a", "t", "c", "h", "?", "v", "=">>, sep |-> "&"],
    [prefix |-> <<"h", "t", "t", "p", ":", "/", "/", "m", ".", "y", "o", "u", "t", "u", "b", "e", ".", "c", "o", "m", "/", "w", "a", "t", "c", "h", "?", "v", "=">>, sep |-> "&"],
    [prefix |-> <<"h", "t", "t", "p", "s", ":", "/", "/", "y", "o", "u", "t", "u", ".", "b", "e", "/">>, sep |-> "?"],
    [prefix |-> <<"h", "t", "t", "p", "s", ":", "/", "/", "w", "w", "w", ".", "y", "o", "u", "t", "u", "b", "e", ".", "c", "o", "m", "/", "s", "h", "o", "r", "t", "s", "/">>, sep |-> "?"],
    [prefix |-> <<"h", "t", "t", "p", "s", ":", "/", "/", "w", "w", "w", ".", "y", "o", "u", "t", "u", "b", "e", ".", "c", "o", "m", "/", "e", "m", "b", "e", "d", "/">>, sep |-> "?"],
    [prefix |-> <<>>, sep |-> "&"] }

SepOf(prefix) == (CHOOSE sh \in RefShapes : sh.prefix = prefix).sep

OffsetAlphabet == {"5", "0", "m", "s", "x", "+"}

OffsetKeys == {K_t, K_start}

\* the reference of shape `prefix` for ID `id`, carrying offset `off` under `key`
\* (no offset when key is empty)
BuildRef(ref) ==
    ref.prefix \o ref.id \o
        (IF ref.key = <<>> THEN <<>> ELSE <<SepOf(ref.prefix)>> \o ref.key \o <<"=">> \o ref.off)

\* references of no listed shape; in the last one the v parameter ends with "+", which
\* parse_qs decodes to a space
OtherValues == {<<>>, <<"n", "o", "t", " ", "a", " ", "v", "i", "d", "e", "o">>, <<"h", "t", "t", "p", "s", ":", "/", "/", "e", "x", "a", "m", "p", "l", "e", ".", "c", "o", "m", "/", "?", "t", "=", "5">>, <<" ", "y", "o", "u", "t", "u", ".", "b", "e", "/", "Q", "8", "0", "-", "p", "w", "D", "r", "C", "V", "I", " ">>, <<"h", "t", "t", "p", "s", ":", "/", "/", "y", "o", "u", "t", "u", ".", "b", "e", "/", "Q", "8", "0", "-", "p", "w", "D", "r", "C", "V", "I", "#", "t", "=", "5">>,
                <<"h", "t", "t", "p", "s", ":", "/", "/", "w", "w", "w", ".", "y", "o", "u", "t", "u", "b", "e", ".", "c", "o", "m", "/", "w", "a", "t", "c", "h", "?", "v", "=", "Q", "8", "0", "-", "p", "w", "D", "r", "C", "V", "I", "+">>}

YtRefs ==
    [prefix : {sh.prefix : sh \in RefShapes}, id : ValidIds \cup MalformedIds,
     key : OffsetKeys, off : StringsUpTo(OffsetAlphabet, MaxOffsetLen)]
    \cup
    [prefix : {sh.prefix : sh \in RefShapes}, id : ValidIds \cup MalformedIds,
     key : {<<>>}, off : {<<>>}]
    \cup
    [prefix : {<<>>}, id : OtherValues, key : {<<>>}, off : {<<>>}]

YtInit ==
    /\ yt_ref \in YtRefs
    /\ yt_value = BuildRef(yt_ref)
    /\ yt_pc = "call"
    /\ yt_vid = PyNone
    /\ yt_start = Nothing
    /\ yt_env = DefaultEnv
    /\ yt_cmd = NoCmd
    /\ yt_proc = NotRun
    /\ yt_result = PyNone
    /\ TimeIdle
    /\ TrIdle
    /\ PipeIdle

YtNext ==
    \/ download_youtube_best_audio
    \/ subprocess_run

SpecYT == YtInit /\ [][YtNext]_vars

\* the references of the calls made under each environment: a watch URL with and without
\* an offset, a bare ID, a reference without an ID
DlRefs ==
    {r \in YtRefs :
        /\ r.id \in {Id_Q80, <<>>}
        /\ r.prefix \in {<<>>, CanonicalPrefix}
        /\ r.off \in {<<>>, <<"5", "m">>}
        /\ r.key = (IF r.off = <<>> THEN <<>> ELSE K_t)}

\* the environments: YTDLP_COOKIES unset, empty, or naming /cookies.txt, which is
\* missing or a file that can or cannot be copied; YT_EXTRACTOR_ARGS at its default,
\* empty, blank, or set to another value
DlEnvs ==
    {env \in [COOKIES_PATH : {PyNone, PyStr(<<>>), PyStr(CookiesSrc)},
              src_is_file : BOOLEAN, copy_ok : BOOLEAN,
              YT_EXTRACTOR_ARGS : {YT_EXTRACTOR_ARGS, <<>>, <<" ">>,
                                   <<" ", "y", "o", "u", "t", "u", "b", "e", ":", "p", "l", "a", "y", "e", "r", "_", "c", "l", "i", "e", "n", "t", "=", "t", "v", " ">>}] :
        /\ env.src_is_file => env.COOKIES_PATH = PyStr(CookiesSrc)
        /\ env.copy_ok => env.src_is_file}

\* download_youtube_best_audio is called under any of the environments
DlInit ==
    /\ yt_ref \in DlRefs
    /\ yt_value = BuildRef(yt_ref)
    /\ yt_pc = "call"
    /\ yt_vid = PyNone
    /\ yt_start = Nothing
    /\ yt_env \in DlEnvs
    /\ yt_cmd = NoCmd
    /\ yt_proc = NotRun
    /\ yt_result = PyNone
    /\ TimeIdle
    /\ TrIdle
    /\ PipeIdle

SpecDl == DlInit /\ [][YtNext]_vars

-----------------------------------------------------------------------------
(* Properties of parse_youtube_value and download_youtube_best_audio.      *)

\* exactly 11 characters, each of [0-9A-Za-z_-]
WellFormedId(s) ==
    /\ Len(s) = 11
    /\ \A i \in 1..Len(s) :
          s[i] \in Digits \/ IsLower(s[i]) \/ IsUpper(s[i]) \/ s[i] \in {"_", "-"}

\* C8: for every input string, normalisation either fails (vid is None and the
\* downloader is not invoked) or yields a video_id of exactly 11 characters of
\* [0-9A-Za-z_-]; yt-dlp is never started on a canonical URL built from a video_id of
\* another shape.
C8_VideoIdWellFormed ==
    /\ (yt_pc \notin {"idle", "call"} /\ yt_vid # PyNone) =>
          yt_vid.type = "str" /\ WellFormedId(yt_vid.val)
    /\ yt_pc \in {"running", "returned"} =>
          LET id == SubSeq(yt_cmd.url, Len(CanonicalPrefix) + 1, Len(yt_cmd.url)) IN
          /\ yt_cmd.url = CanonicalPrefix \o id
          /\ WellFormedId(id)

\* the raw form ID&t=OFF of the reference of the state (the raw form ID when the
\* reference carries no offset)
RawForm(ref) ==
    [prefix |-> <<>>, id |-> ref.id, key |-> IF ref.key = <<>> THEN <<>> ELSE K_t,
     off |-> ref.off]

\* C9: for every valid 11-character ID and every offset string, parse_youtube_value
\* returns the same (video_id, start offset) for every reference shape carrying that ID
\* and offset: the watch?v=ID, youtu.be/ID, /shorts/ID and /embed/ID URLs with t= or
\* start=, and the raw form ID&t=...; and the same (video_id, None) for these URLs
\* without an offset and the raw form ID.  The video_id is the ID of the reference.
C9_SameForEveryShape ==
    (yt_pc \notin {"idle", "call"} /\ yt_ref.id \in ValidIds) =>
        /\ yt_vid = PyStr(yt_ref.id)
        /\ parse_youtube_value(BuildRef(RawForm(yt_ref))) = [vid |-> yt_vid, start |-> yt_start]
        /\ yt_ref.key = <<>> => yt_start = Nothing

\* a /shorts/ URL with start=5m was parsed to the ID and 300 seconds
C9_Witness ==
    /\ yt_pc = "running"
    /\ yt_ref = [prefix |-> <<"h", "t", "t", "p", "s", ":", "/", "/", "w", "w", "w", ".", "y", "o", "u", "t", "u", "b", "e", ".", "c", "o", "m", "/", "s", "h", "o", "r", "t", "s", "/">>, id |-> Id_Q80, key |-> K_start, off |-> <<"5", "m">>]
    /\ yt_vid = PyStr(Id_Q80)
    /\ yt_start = Some(300)

\* C11: for every video_id that parse_youtube_value returns, parsing the canonical URL
\* derived from it (https://www.youtube.com/watch?v={video_id}) returns the same
\* video_id and no start offset.
C11_CanonicalUrlParsesBack ==
    (yt_pc \notin {"idle", "call"} /\ yt_vid.type = "str") =>
        parse_youtube_value(canonical_url(yt_vid.val)) = [vid |-> yt_vid, start |-> Nothing]

\* the command line was built (subprocess.run was reached)
CommandBuilt == yt_pc \in {"running", "returned"} \/ (yt_pc = "raised" /\ yt_cmd # NoCmd)

\* C21: download_youtube_best_audio passes --download-sections "*{start}-" to yt-dlp if
\* and only if the parsed start offset is present and greater than 0, and the argument
\* then names that offset; with an absent offset or one that parses to 0 the argument is
\* left out and the whole media is downloaded.
C21_SectionsIffPositiveStart ==
    CommandBuilt =>
        /\ yt_cmd.sections # PyNone <=> (yt_start # Nothing /\ yt_start.n > 0)
        /\ yt_cmd.sections # PyNone =>
              LET arg == yt_cmd.sections.val IN
              /\ Len(arg) >= 3 /\ arg[1] = "*" /\ arg[Len(arg)] = "-"
              /\ \A i \in 2..(Len(arg) - 1) : arg[i] \in Digits
              /\ int(SubSeq(arg, 2, Len(arg) - 1)) = yt_start.n

\* yt-dlp was started with --download-sections *300- for a reference with t=5m
C21_Witness ==
    /\ yt_pc = "running"
    /\ yt_ref.off = <<"5", "m">>
    /\ yt_start = Some(300)
    /\ yt_cmd.sections = PyStr(<<"*", "3", "0", "0", "-">>)

\* yt-dlp was started without --download-sections for a reference with t=0
WholeMediaForZeroOffset ==
    /\ yt_pc = "running"
    /\ yt_ref.off = <<"0">>
    /\ yt_start = Some(0)
    /\ yt_cmd.sections = PyNone

\* the call found a usable cookies file: --cookies is on the command line
WithCookies == CommandBuilt /\ yt_cmd.cookies # PyNone

\* C22: for every value of YT_EXTRACTOR_ARGS, the --extractor-args value passed to
\* yt-dlp when a usable cookies file is present differs from the value passed when no
\* cookies file is present: the value of the command of the state is not the one the
\* same setting gives in the other case.
C22_ProfileDependsOnCookies ==
    CommandBuilt =>
        yt_cmd.extractor_args # extractor_args(yt_env.YT_EXTRACTOR_ARGS, ~WithCookies)

\* the same, for an empty or blank YT_EXTRACTOR_ARGS only
ProfileDependsOnCookiesWhenUnset ==
    (CommandBuilt /\ strip(yt_env.YT_EXTRACTOR_ARGS) = <<>>) =>
        yt_cmd.extractor_args # extractor_args(yt_env.YT_EXTRACTOR_ARGS, ~WithCookies)

\* yt-dlp was started with the copied cookies file and, YT_EXTRACTOR_ARGS being at its
\* default, with the extractor arguments of a call without cookies
SameProfileWithCookies ==
    /\ yt_pc = "running"
    /\ yt_env.YT_EXTRACTOR_ARGS = YT_EXTRACTOR_ARGS
    /\ yt_cmd.cookies = PyStr(CookiesDst)
    /\ yt_cmd.extractor_args = YT_EXTRACTOR_ARGS

\* the bot-verification message of YouTube with the typographic apostrophe (U+2019)
\* and with the ASCII apostrophe, in small letters
BotMessage_typographic == <<"c", "o", "n", "f", "i", "r", "m", " ", "y", "o", "u", "U+2019", "r", "e", " ", "n", "o", "t", " ", "a", " ", "b", "o", "t">>
BotMessage_ascii == <<"c", "o", "n", "f", "i", "r", "m", " ", "y", "o", "u", "'", "r", "e", " ", "n", "o", "t", " ", "a", " ", "b", "o", "t">>

\* text carries the bot-verification message in one of the two forms, in any case
MentionsBotVerification(text) ==
    \/ contains(lower(text), BotMessage_typographic)
    \/ contains(lower(text), BotMessage_ascii)

\* yt-dlp ended with a non-zero exit status and the call raised
SubprocessFailed == yt_pc = "raised" /\ yt_proc.returncode > 0

\* C23: when yt-dlp fails, download_youtube_best_audio raises the human-verification
\* error (retry later, provide cookies.txt, or change egress IP) exactly when the
\* diagnostic text contains the bot-verification message with the typographic or the
\* ASCII apostrophe, and otherwise raises an error carrying the diagnostic text.
C23_BotVerificationTranslated ==
    SubprocessFailed =>
        /\ yt_result.type = "ValueError"
        /\ yt_result.val = (IF MentionsBotVerification(diagnostic(yt_proc))
                            THEN HumanVerification
                            ELSE diagnostic(yt_proc))

\* the same, for the message with the ASCII apostrophe only
AsciiBotVerificationTranslated ==
    SubprocessFailed =>
        /\ yt_result.type = "ValueError"
        /\ contains(lower(diagnostic(yt_proc)), BotMessage_ascii) =>
              yt_result.val = HumanVerification
        /\ yt_result.val \in {HumanVerification, diagnostic(yt_proc)}

\* yt-dlp failed with the message with the typographic apostrophe and the call raised
\* an error carrying that message
TypographicMessageRaisedAsIs ==
    /\ SubprocessFailed
    /\ yt_proc.stderr = Msg_bot_typographic
    /\ yt_result = Raised("ValueError", Msg_bot_typographic)

-----------------------------------------------------------------------------
(* main.py: basic_auth_middleware.                                          *)

\* config.py, lines 34-35
AUTH_USERNAME == <<"a", "d", "m", "i", "n">>
AUTH_PASSWORD == <<"K", "5", "C", "5", "R", "2", "w", "R", "P", "b", "6", "c", "K", "c", "U", "1">>

\* the one character of the model outside ASCII (U+00E9), written as a name
NonAscii == {"U+00E9"}

\* str.isascii()
isascii(s) == \A i \in 1..Len(s) : s[i] \notin NonAscii

\* the characters of the base64 alphabet and the padding
B64Chars == Digits \cup {LowerLetters[i] : i \in 1..26} \cup {UpperLetters[i] : i \in 1..26}
            \cup {"+", "/", "="}

\* base64.b64decode(s).decode("utf-8") on the encoded texts of the model: the decoded
\* string, binascii.Error for wrong padding, UnicodeDecodeError for bytes that are not
\* UTF-8
B64Table == {
    [b64 |-> <<"Y", "W", "R", "t", "a", "W", "4", "6", "S", "z", "V", "D", "N", "V", "I", "y", "d", "1", "J", "Q", "Y", "j", "Z", "j", "S", "2", "N", "V", "M", "Q", "=", "=">>,
     out |-> PyStr(<<"a", "d", "m", "i", "n", ":", "K", "5", "C", "5", "R", "2", "w", "R", "P", "b", "6", "c", "K", "c", "U", "1">>)],
    [b64 |-> <<"Y", "W", "R", "t", "a", "W", "4", "6", "c", "H", "c", "=">>,
     out |-> PyStr(<<"a", "d", "m", "i", "n", ":", "p", "w">>)],
    [b64 |-> <<"c", "m", "9", "v", "d", "D", "p", "L", "N", "U", "M", "1", "U", "j", "J", "3", "U", "l", "B", "i", "N", "m", "N", "L", "Y", "1", "U", "x">>,
     out |-> PyStr(<<"r", "o", "o", "t", ":", "K", "5", "C", "5", "R", "2", "w", "R", "P", "b", "6", "c", "K", "c", "U", "1">>)],
    [b64 |-> <<"Y", "W", "R", "t", "a", "W", "4", "=">>,
     out |-> PyStr(<<"a", "d", "m", "i", "n">>)],
    [b64 |-> <<"/", "z", "p", "w", "d", "w", "=", "=">>,
     out |-> PyExc("UnicodeDecodeError")],
    [b64 |-> <<"w", "6", "k", "6", "c", "H", "c", "=">>,
     out |-> PyStr(<<"U+00E9", ":", "p", "w">>)],
    [b64 |-> <<"Y", "W", "R", "t", "a", "W", "4", "6", "w", "6", "k", "=">>,
     out |-> PyStr(<<"a", "d", "m", "i", "n", ":", "U+00E9">>)],
    [b64 |-> <<"c", "m", "9", "v", "d", "D", "r", "D", "q", "Q", "=", "=">>,
     out |-> PyStr(<<"r", "o", "o", "t", ":", "U+00E9">>)],
    [b64 |-> <<"a", "b", "c">>,
     out |-> PyExc("binascii.Error")],
    [b64 |-> <<>>,
     out |-> PyStr(<<>>)] }

\* b64decode without validate=True discards the characters outside the alphabet
RECURSIVE discard_non_alphabet(_)
discard_non_alphabet(s) ==
    IF Len(s) = 0 THEN <<>>
    ELSE (IF s[1] \in B64Chars THEN <<s[1]>> ELSE <<>>) \o discard_non_alphabet(Tail(s))

\* line 109: base64.b64decode(credentials).decode("utf-8")
b64decode_utf8(credentials) ==
    LET t == discard_non_alphabet(credentials) IN (CHOOSE e \in B64Table : e.b64 = t).out

\* the three outcomes of the middleware
CallNext == [kind |-> "next", status |-> 0, challenge |-> FALSE, detail |-> ""]
Unauthorized(detail) == [kind |-> "response", status |-> 401, challenge |-> TRUE, detail |-> detail]
Unhandled(exc) == [kind |-> "raise", status |-> 500, challenge |-> FALSE, detail |-> exc]

\* secrets.compare_digest(a, b) on two str raises TypeError when one of them is not
\* ASCII; lines 114-115 compare the user name first and the password only if it matched
compare_credentials(username, password) ==
    IF ~isascii(username) THEN Unhandled("TypeError")
    ELSE IF username # AUTH_USERNAME THEN Unauthorized("Invalid credentials")
    ELSE IF ~isascii(password) THEN Unhandled("TypeError")
    ELSE IF password # AUTH_PASSWORD THEN Unauthorized("Invalid credentials")
    ELSE CallNext

Basic_ == <<"b", "a", "s", "i", "c">>

\* lines 94-118
basic_auth_middleware(method, auth) ==
    IF method = "OPTIONS" THEN CallNext
    ELSE IF ~Truthy(auth) THEN Unauthorized("Authentication required")
    ELSE IF find(auth.val, " ") = 0 THEN Unauthorized("Invalid authentication header")
    ELSE LET scheme == head_of(auth.val, " ")
             credentials == tail_of(auth.val, " ")
         IN IF lower(scheme) # Basic_ THEN Unauthorized("Invalid authentication header")
            ELSE LET decoded == b64decode_utf8(credentials) IN
                 IF decoded.type # "str" THEN Unauthorized("Invalid authentication header")
                 ELSE IF find(decoded.val, ":") = 0
                 THEN Unauthorized("Invalid authentication header")
                 ELSE compare_credentials(head_of(decoded.val, ":"), tail_of(decoded.val, ":"))

\* the configured credentials
Hdr_ok == <<"B", "a", "s", "i", "c", " ", "Y", "W", "R", "t", "a", "W", "4", "6", "S", "z", "V", "D", "N", "V", "I", "y", "d", "1", "J", "Q", "Y", "j", "Z", "j", "S", "2", "N", "V", "M", "Q", "=", "=">>
\* the configured user with another password, the scheme in upper case
Hdr_wrong_password == <<"B", "A", "S", "I", "C", " ", "Y", "W", "R", "t", "a", "W", "4", "6", "c", "H", "c", "=">>
\* another user with the configured password, after two spaces
Hdr_wrong_user == <<"B", "a", "s", "i", "c", " ", " ", "c", "m", "9", "v", "d", "D", "p", "L", "N", "U", "M", "1", "U", "j", "J", "3", "U", "l", "B", "i", "N", "m", "N", "L", "Y", "1", "U", "x">>
\* credentials without a colon
Hdr_no_colon == <<"B", "a", "s", "i", "c", " ", "Y", "W", "R", "t", "a", "W", "4", "=">>
\* credentials that are not UTF-8
Hdr_not_utf8 == <<"B", "a", "s", "i", "c", " ", "/", "z", "p", "w", "d", "w", "=", "=">>
\* credentials that are not base64
Hdr_not_base64 == <<"B", "a", "s", "i", "c", " ", "a", "b", "c">>
\* another scheme
Hdr_bearer == <<"B", "e", "a", "r", "e", "r", " ", "Y", "W", "R", "t", "a", "W", "4", "6", "S", "z", "V", "D", "N", "V", "I", "y", "d", "1", "J", "Q", "Y", "j", "Z", "j", "S", "2", "N", "V", "M", "Q", "=", "=">>
\* a scheme without credentials
Hdr_no_space == <<"B", "a", "s", "i", "c">>
\* the user name U+00E9
Hdr_non_ascii_user == <<"B", "a", "s", "i", "c", " ", "w", "6", "k", "6", "c", "H", "c", "=">>
\* the configured user with the password U+00E9
Hdr_non_ascii_password == <<"B", "a", "s", "i", "c", " ", "Y", "W", "R", "t", "a", "W", "4", "6", "w", "6", "k", "=">>
\* another user with the password U+00E9
Hdr_root_non_ascii == <<"B", "a", "s", "i", "c", " ", "c", "m", "9", "v", "d", "D", "r", "D", "q", "Q", "=", "=">>
\* an empty header
Hdr_empty == <<>>

\* the Authorization headers of the requests; PyNone is a request without one
AuthHeaders ==
    {PyNone} \cup {PyStr(h) : h \in {Hdr_ok, Hdr_wrong_password, Hdr_wrong_user, Hdr_no_colon, Hdr_not_utf8, Hdr_not_base64, Hdr_bearer, Hdr_no_space, Hdr_non_ascii_user, Hdr_non_ascii_password, Hdr_root_non_ascii, Hdr_empty}}

Methods == {"POST", "GET", "OPTIONS"}

\* a CORS preflight is sent without credentials
HeadersOf(method) == IF method = "OPTIONS" THEN {PyNone} ELSE AuthHeaders

\* what a request gets that the middleware stopped or that reached no route handler:
\* the response of the middleware, 500 for its unhandled exception, the answer of the
\* CORS middleware to a preflight, 405 of the router for a method the routes do not have
turned_away(method, d) ==
    IF d.kind = "response"
    THEN {[NoResponse EXCEPT !.status = d.status, !.kind = "error", !.challenge = d.challenge]}
    ELSE IF d.kind = "raise"
    THEN {[NoResponse EXCEPT !.status = 500, !.kind = "error"]}
    ELSE IF method = "OPTIONS"
    THEN {[NoResponse EXCEPT !.status = st, !.kind = "preflight"] : st \in {200, 400, 405}}
    ELSE {[NoResponse EXCEPT !.status = 405, !.kind = "error"]}

-----------------------------------------------------------------------------
(* media.py and main.py: the two endpoints, stage by stage.                *)

AUDIO_EXTS == {<<"m", "p", "3">>,
               <<"a", "a", "c">>,
               <<"w", "a", "v">>,
               <<"w", "m", "a">>,
               <<"o", "g", "g">>,
               <<"f", "l", "a", "c">>,
               <<"m", "4", "a">>,
               <<"a", "i", "f", "f">>,
               <<"o", "p", "u", "s">>,
               <<"a", "l", "a", "c">>,
               <<"a", "m", "r">>}

VIDEO_EXTS == {<<"m", "p", "4">>,
               <<"a", "v", "i">>,
               <<"m", "o", "v">>,
               <<"w", "m", "v">>,
               <<"m", "p", "e", "g">>,
               <<"m", "p", "g">>,
               <<"m", "k", "v">>,
               <<"f", "l", "v">>,
               <<"w", "e", "b", "m">>,
               <<"3", "g", "p">>,
               <<"m", "t", "s">>,
               <<"m", "2", "t", "s">>,
               <<"v", "o", "b">>,
               <<"r", "m", "v", "b">>}

Video_ == <<"v", "i", "d", "e", "o", "/">>
Audio_ == <<"a", "u", "d", "i", "o", "/">>

is_video(mime) == startswith(mime, Video_)
is_audio(mime) == startswith(mime, Audio_)

\* str.lstrip(".")
RECURSIVE lstrip_dots(_)
lstrip_dots(s) == IF Len(s) > 0 /\ s[1] = "." THEN lstrip_dots(Tail(s)) ELSE s

\* s.rfind(c) + 1: the last position of character c in s, 0 when there is none
rfind(s, c) ==
    IF \E i \in 1..Len(s) : s[i] = c
    THEN CHOOSE i \in 1..Len(s) : s[i] = c /\ \A k \in (i + 1)..Len(s) : s[k] # c
    ELSE 0

\* Path(name).suffix: from the last dot on, unless that dot starts or ends the name
path_suffix(name) ==
    LET i == rfind(name, ".") IN
    IF 1 < i /\ i < Len(name) THEN SubSeq(name, i, Len(name)) ELSE <<>>

\* Path.with_suffix
with_suffix(path, suffix) == [path EXCEPT !.suffix = suffix]

Dot_m4a == <<".", "m", "4", "a">>

\* a mistaken validate_file_extension: every extension is let through
extension_unchecked(path) == TRUE

\* validate_file_extension accepts the path
extension_allowed(path) ==
    LET ext == lstrip_dots(lower(path.suffix)) IN ext \in AUDIO_EXTS \/ ext \in VIDEO_EXTS

\* line 260: UPLOAD_DIR / f"upload_{os.getpid()}_{id(file)}{suffix}"
upload_path(pid, addr, suffix) ==
    [dir |-> "uploads", stem |-> <<"u", "p", "l", "o", "a", "d", "_">> \o <<pid, "_", addr>>, suffix |-> suffix]

\* the title yt-dlp puts into the file name
Title == <<"t", "i", "t", "l", "e">>

\* line 137: out_dir / "%(title)s_%(id)s.%(ext)s"
download_path(vid, ext) == [dir |-> "yt", stem |-> Title \o <<"_">> \o vid, suffix |-> ext]

\* the extensions yt-dlp can leave the audio with
Dot_webm == <<".", "w", "e", "b", "m">>
YtExts == {Dot_m4a, Dot_webm}

\* lines 190-193: the file of the video with extension .m4a when the directory has one,
\* else the newest file of the video, which is the one just written
newest_candidate(files, vid, written) ==
    IF download_path(vid, Dot_m4a) \in files THEN download_path(vid, Dot_m4a) ELSE written

\* media.py, lines 32-38: what ffmpeg writes with -vn -ac 1 -ar 16000 -c:a aac to a
\* path ending in .m4a
ffmpeg_output == [container |-> "m4a", codec |-> "aac", channels |-> 1, rate |-> 16000]

\* downloader.py, lines 151-165: what a file left by yt-dlp -f bestaudio/best -x
\* --audio-format m4a holds.  The command names the container and the codec only, so
\* the channels and the rate are those of the stream: for YouTube stereo at 44.1 kHz.
\* A file with another extension was not converted (Opus in WebM, stereo at 48 kHz).
yt_dlp_output(ext) ==
    IF ext = Dot_m4a
    THEN [container |-> "m4a", codec |-> "aac", channels |-> 2, rate |-> 44100]
    ELSE [container |-> "webm", codec |-> "opus", channels |-> 2, rate |-> 48000]

ErrorResponse(status) == [NoResponse EXCEPT !.status = status, !.kind = "error"]

\* a mistaken handler: a failed stage is answered with an empty transcript
EmptyTranscript(status) ==
    [NoResponse EXCEPT !.status = 200, !.kind = "transcription", !.translation_status = "ok"]

\* an exception leaves the handler: HTTPException(400 or 415) as such, any other
\* exception as 500; nothing after the failing line runs
fatal(status) == ErrorResponse(status)

\* lines 227-235 and 286-294
TranscriptionResponse(source, full_text, transcript_english, translation_status) ==
    [status |-> 200, kind |-> "transcription", source |-> source,
     transcript_original |-> full_text, transcript_english |-> transcript_english,
     translation_status |-> translation_status, challenge |-> FALSE]

\* a mistaken fallback: the failed translation is reported as done
translation_failed_reported_ok(full_text) == [english |-> full_text, status |-> "ok"]

\* lines 222-224 and 281-283: the except branch of the translation
translation_failed(full_text) == [english |-> full_text, status |-> "failed"]

\* lines 220-221 and 279-280
translation_ok(ret) == [english |-> ret, status |-> "ok"]

\* the transcripts the recogniser can return
Transcripts == {<<>>, Str_hola}

\* how translate_to_english(full_text) can end: the text itself for an empty text, a
\* provider's answer, or an exception
TranslatorOutcomes(full_text) ==
    IF passes_through(PyStr(full_text))
    THEN {[raised |-> FALSE, ret |-> full_text]}
    ELSE {[raised |-> FALSE, ret |-> t] : t \in ProviderTexts}
         \cup {[raised |-> TRUE, ret |-> <<>>]}

\* a mistaken get_whisper_model, without lru_cache: every call constructs a model
get_whisper_model_uncached(w) ==
    [w EXCEPT !.cache = w.built + 1, !.built = w.built + 1]

\* stt.py, lines 10-23: lru_cache(maxsize=1) returns the cached WhisperModel; on a miss
\* the model is constructed and cached.  The instances of a process are numbered in
\* the order of their construction; the call is made on the event loop thread and
\* does not await, so no other call of the process runs during it.
get_whisper_model(w) ==
    IF w.cache # NoModel THEN w
    ELSE [w EXCEPT !.cache = w.built + 1, !.built = w.built + 1]

\* the values of settings.STT_BACKEND: the supported backend and another one
STT_BACKENDS == {FasterWhisper, "whisper-cpp"}

\* main.py, lines 56-61: the startup of a server process loads the model when the
\* backend is faster-whisper; the process serves requests only after it
lifespan(p) ==
    /\ ~whisper[p].started
    /\ whisper' = [whisper EXCEPT ![p] =
                       [(IF stt_backend = FasterWhisper THEN get_whisper_model(@) ELSE @)
                            EXCEPT !.started = TRUE]]
    /\ UNCHANGED <<req, fs, loop, stt_backend, tvars, trvars, ytvars>>

\* the handlers are coroutines (async def) of the single event loop of their process:
\* one starts or resumes only when no other handler of the process is running
event_loop_free(r) == loop[req[r].pid] = 0

\* the handler of r is the one running on the event loop of its process: from its first
\* blocking call (subprocess.run, model.transcribe, time.sleep) to its return it does
\* not await
on_event_loop(r) == loop[req[r].pid] = r

\* a mistaken handler: the exception of a stage is swallowed and the handler goes on
\* to the recogniser
FailAndGoOn(r, stage, status, invoked) ==
    /\ req' = [req EXCEPT ![r].pc = "acquired", ![r].failed = stage,
                          ![r].stages = @ \o invoked]
    /\ loop' = [loop EXCEPT ![req[r].pid] = r]

\* the handler of r ends with an exception at `stage`
Fail(r, stage, status, invoked) ==
    /\ req' = [req EXCEPT ![r].pc = "done", ![r].failed = stage, ![r].resp = fatal(status),
                          ![r].stages = @ \o invoked]
    /\ loop' = [loop EXCEPT ![req[r].pid] = 0]

\* the requests of process pid whose UploadFile object is alive
LiveUploads(pid) ==
    {q \in Reqs : req[q].endpoint = "upload" /\ req[q].pid = pid /\ req[q].pc \notin {"idle", "done"}}

\* the form values and uploads the requests are made with
PipeValues == {<<"h", "t", "t", "p", "s", ":", "/", "/", "w", "w", "w", ".", "y", "o", "u", "t", "u", "b", "e", ".", "c", "o", "m", "/", "w", "a", "t", "c", "h", "?", "v", "=", "Q", "8", "0", "-", "p", "w", "D", "r", "C", "V", "I", "&", "t", "=", "5", "s">>,
               <<"Q", "8", "0", "-", "p", "w", "D", "r", "C", "V", "I">>,
               <<"h", "t", "t", "p", "s", ":", "/", "/", "y", "o", "u", "t", "u", ".", "b", "e", "/", "_", "a", "1", "-", "B", "2", "_", "c", "3", "-", "Z">>,
               <<"n", "o", "t", " ", "a", " ", "v", "i", "d", "e", "o">>}

UploadNames == {<<"a", ".", "m", "p", "4">>, <<"a", ".", "m", "4", "a">>, <<"a", ".", "z", "i", "p">>, <<>>}

ContentTypes == {<<"a", "u", "d", "i", "o", "/", "m", "p", "e", "g">>, <<"v", "i", "d", "e", "o", "/", "m", "p", "4">>, <<"a", "p", "p", "l", "i", "c", "a", "t", "i", "o", "n", "/", "z", "i", "p">>, <<>>}

\* requests arrive in the order of their numbers
MayArrive(r) == req[r].pc = "idle" /\ \A q \in Reqs : q < r => req[q].pc # "idle"

\* a request for /transcribe/youtube arrives at one of the server processes and goes
\* through basic_auth_middleware; the handler gets it when the middleware calls next
\* and the method is POST
accept_youtube(r) ==
    /\ MayArrive(r)
    /\ \E pid \in Pids, method \in Methods : \E auth \in HeadersOf(method) :
        /\ whisper[pid].started
        /\ LET d == basic_auth_middleware(method, auth)
               arrived == [req[r] EXCEPT !.endpoint = "youtube", !.pid = pid,
                                         !.method = method, !.authorization = auth]
           IN IF d.kind = "next" /\ method = "POST"
              THEN \E value \in PipeValues :
                       req' = [req EXCEPT ![r] = [arrived EXCEPT !.pc = "accepted",
                                                                 !.youtube_value = value]]
              ELSE \E resp \in turned_away(method, d) :
                       req' = [req EXCEPT ![r] = [arrived EXCEPT !.pc = "done",
                                                                 !.failed = "gateway",
                                                                 !.resp = resp]]
    /\ UNCHANGED <<fs, loop, whisper, stt_backend, tvars, trvars, ytvars>>

\* the same for /transcribe/upload; the address of the UploadFile of an accepted
\* request differs from those of the live UploadFile objects of the process
accept_upload(r) ==
    /\ MayArrive(r)
    /\ \E pid \in Pids, method \in Methods : \E auth \in HeadersOf(method) :
        /\ whisper[pid].started
        /\ LET d == basic_auth_middleware(method, auth)
               arrived == [req[r] EXCEPT !.endpoint = "upload", !.pid = pid,
                                         !.method = method, !.authorization = auth]
           IN IF d.kind = "next" /\ method = "POST"
              THEN \E name \in UploadNames, mime \in ContentTypes, addr \in Addrs :
                       /\ \A q \in LiveUploads(pid) : req[q].addr # addr
                       /\ req' = [req EXCEPT ![r] = [arrived EXCEPT !.pc = "accepted",
                                                                    !.filename = name,
                                                                    !.content_type = mime,
                                                                    !.addr = addr]]
              ELSE \E resp \in turned_away(method, d) :
                       req' = [req EXCEPT ![r] = [arrived EXCEPT !.pc = "done",
                                                                 !.failed = "gateway",
                                                                 !.resp = resp]]
    /\ UNCHANGED <<fs, loop, whisper, stt_backend, tvars, trvars, ytvars>>

\* transcribe_youtube, lines 210-215: the reference is parsed and yt-dlp run; the
\* handler does not await, so it keeps the event loop of its process until it ends
acquire_youtube(r) ==
    /\ req[r].pc = "accepted" /\ req[r].endpoint = "youtube"
    /\ event_loop_free(r)
    /\ LET parsed == parse_youtube_value(req[r].youtube_value) IN
       IF ~Truthy(parsed.vid)
       THEN Fail(r, "acquire", 400, <<>>) /\ UNCHANGED fs
       ELSE \E ok \in BOOLEAN, ext \in YtExts :
            IF ok
            THEN LET written == download_path(parsed.vid.val, ext)
                     newest == newest_candidate(fs \cup {written}, parsed.vid.val, written)
                 IN
                 /\ fs' = fs \cup {written}
                 /\ req' = [req EXCEPT ![r].pc = "acquired",
                                       ![r].audio_path = newest,
                                       ![r].audio_format = yt_dlp_output(newest.suffix),
                                       ![r].created = @ \cup {written},
                                       ![r].stages = Append(@, "yt-dlp")]
                 /\ loop' = [loop EXCEPT ![req[r].pid] = r]
            ELSE /\ ext = Dot_m4a
                 /\ Fail(r, "acquire", 400, <<"yt-dlp">>)
                 /\ UNCHANGED fs
    /\ UNCHANGED <<whisper, stt_backend, tvars, trvars, ytvars>>

\* transcribe_upload, lines 256-266: the upload is saved under a name made of the
\* process id, the address of the UploadFile and the suffix of the file name
save_upload(r) ==
    /\ req[r].pc = "accepted" /\ req[r].endpoint = "upload"
    /\ event_loop_free(r)
    /\ LET tmp_saved == upload_path(req[r].pid, req[r].addr, path_suffix(req[r].filename)) IN
       /\ fs' = fs \cup {tmp_saved}
       /\ req' = [req EXCEPT ![r].pc = "saved", ![r].tmp_saved = tmp_saved,
                             ![r].created = @ \cup {tmp_saved},
                             ![r].stages = Append(@, "save")]
    /\ UNCHANGED <<loop, whisper, stt_backend, tvars, trvars, ytvars>>

\* main.py, line 270: tmp_saved.with_suffix(".m4a")
transcoder_output(tmp_saved) == with_suffix(tmp_saved, Dot_m4a)

\* media.py, lines 31-39: ffmpeg -y -i input output can end with exit status 0 only
\* when the two paths differ; it refuses an output that is its input
ffmpeg_can_succeed(input_path, output_path) == input_path # output_path

\* transcribe_upload, lines 268-274, and extract_audio_to_m4a: the content type and
\* the extension are checked, then ffmpeg writes the .m4a beside the saved upload
transcode_upload(r) ==
    /\ req[r].pc = "saved"
    /\ event_loop_free(r)
    /\ LET mime == req[r].content_type
           audio_path == transcoder_output(req[r].tmp_saved)
       IN IF is_audio(mime) \/ is_video(mime)
          THEN IF ~extension_allowed(req[r].tmp_saved)
               THEN Fail(r, "validate", 415, <<>>) /\ UNCHANGED fs
               ELSE \E ok \in BOOLEAN :
                    IF ok /\ ffmpeg_can_succeed(req[r].tmp_saved, audio_path)
                    THEN /\ fs' = fs \cup {audio_path}
                         /\ req' = [req EXCEPT ![r].pc = "acquired",
                                               ![r].audio_path = audio_path,
                                               ![r].audio_format = ffmpeg_output,
                                               ![r].created = @ \cup {audio_path},
                                               ![r].stages = Append(@, "ffmpeg")]
                         /\ loop' = [loop EXCEPT ![req[r].pid] = r]
                    ELSE Fail(r, "transcode", 500, <<"ffmpeg">>) /\ UNCHANGED fs
          ELSE Fail(r, "validate", 415, <<>>) /\ UNCHANGED fs
    /\ UNCHANGED <<whisper, stt_backend, tvars, trvars, ytvars>>

\* lines 218 and 277, and stt.py 26-47: transcribe_file(audio_path) raises ValueError
\* for a backend it does not know; otherwise it takes the model from
\* get_whisper_model() and runs it, which cannot succeed on a missing file
recognise(r) ==
    /\ req[r].pc = "acquired"
    /\ on_event_loop(r)
    /\ IF stt_backend # FasterWhisper
       THEN /\ Fail(r, "recognise", 500, <<"recognise">>)
            /\ UNCHANGED whisper
       ELSE LET w == get_whisper_model(whisper[req[r].pid]) IN
            /\ whisper' = [whisper EXCEPT ![req[r].pid] = w]
            /\ \E ok \in BOOLEAN, text \in Transcripts :
                IF ok
                THEN /\ req[r].audio_path \in fs
                     /\ req' = [req EXCEPT ![r].pc = "recognised", ![r].full_text = text,
                                           ![r].model = w.cache,
                                           ![r].stages = Append(@, "recognise")]
                     /\ UNCHANGED loop
                ELSE /\ text = <<>>
                     /\ Fail(r, "recognise", 500, <<"recognise">>)
    /\ UNCHANGED <<fs, stt_backend, tvars, trvars, ytvars>>

\* lines 219-240 and 278-299: the translation with its fallback, the response, the
\* cleanup task; the handler returns and frees the event loop
translate_and_respond(r) ==
    /\ req[r].pc = "recognised"
    /\ on_event_loop(r)
    /\ \E out \in TranslatorOutcomes(req[r].full_text) :
        LET tr == IF out.raised THEN translation_failed(req[r].full_text)
                  ELSE translation_ok(out.ret)
            to_clean == IF req[r].endpoint = "youtube" THEN <<req[r].audio_path>>
                        ELSE <<req[r].tmp_saved, req[r].audio_path>>
        IN req' = [req EXCEPT ![r].pc = "responded",
                              ![r].translator = IF out.raised THEN "raised" ELSE "returned",
                              ![r].resp = TranscriptionResponse(req[r].endpoint, req[r].full_text,
                                                                tr.english, tr.status),
                              ![r].to_clean = to_clean,
                              ![r].stages = Append(@, "translate")]
    /\ loop' = [loop EXCEPT ![req[r].pid] = 0]
    /\ UNCHANGED <<fs, whisper, stt_backend, tvars, trvars, ytvars>>

\* a mistaken cleanup_paths, with the try around the loop: the first error ends it
attempted_until_error(paths, errors) ==
    IF \E i \in 1..Len(paths) : paths[i] \in errors
    THEN SubSeq(paths, 1, CHOOSE i \in 1..Len(paths) :
                              paths[i] \in errors /\ \A k \in 1..(i - 1) : paths[k] \notin errors)
    ELSE paths

\* lines 126-133: the paths cleanup_paths gets to when is_file or unlink raises for the
\* paths of `errors`; the try is inside the loop, so an error is passed over and the
\* loop goes on
attempted(paths, errors) == paths

\* cleanup_paths, lines 125-133, run as a background task after the response: each
\* path that is a file is unlinked; an unlink that raises leaves its file
cleanup_paths(r) ==
    /\ req[r].pc = "responded"
    /\ \E errors \in SUBSET ({req[r].to_clean[i] : i \in 1..Len(req[r].to_clean)} \cap fs) :
        LET tried == attempted(req[r].to_clean, errors) IN
        /\ fs' = fs \ ({tried[i] : i \in 1..Len(tried)} \ errors)
        /\ req' = [req EXCEPT ![r].pc = "done", ![r].cleaned = tried,
                              ![r].unlink_errors = errors,
                              ![r].stages = Append(@, "cleanup")]
    /\ UNCHANGED <<loop, whisper, stt_backend, tvars, trvars, ytvars>>

-----------------------------------------------------------------------------
(* Spec: the requests, interleaved as the server processes allow.          *)

Init ==
    /\ PipeStart
    /\ stt_backend \in STT_BACKENDS
    /\ TimeIdle
    /\ TrIdle
    /\ YtIdle

Next ==
    \/ \E p \in Pids : lifespan(p)
    \/ \E r \in Reqs :
        \/ accept_youtube(r)
        \/ accept_upload(r)
        \/ acquire_youtube(r)
        \/ save_upload(r)
        \/ transcode_upload(r)
        \/ recognise(r)
        \/ translate_and_respond(r)
        \/ cleanup_paths(r)

Spec == Init /\ [][Next]_vars

-----------------------------------------------------------------------------
(* Properties of the endpoints.                                            *)

\* the files request r created that are still on disk and that no other request wrote
Leftovers(r) ==
    {f \in req[r].created \cap fs : \A q \in Reqs \ {r} : f \notin req[q].created}

\* C1: for every request to either endpoint, whether it ends in a 200 response or
\* fails at any stage, once the request and its background cleanup have finished none
\* of the files that request created (saved upload, transcoded .m4a, downloaded audio)
\* remains in the upload and download directories.
C1_NoFileRemains ==
    \A r \in Reqs : req[r].pc = "done" => Leftovers(r) = {}

\* C2: in both endpoints, if the translation raises after recognition succeeded, the
\* request still completes with HTTP 200, transcript_english equals
\* transcript_original and translation_status is "failed"; translation_status is "ok"
\* exactly when the translator returned without raising.
C2_TranslationNeverFatal ==
    \A r \in Reqs :
        /\ req[r].translator = "raised" =>
              /\ req[r].resp.status = 200
              /\ req[r].resp.kind = "transcription"
              /\ req[r].resp.transcript_original = req[r].full_text
              /\ req[r].resp.transcript_english = req[r].resp.transcript_original
              /\ req[r].resp.translation_status = "failed"
        /\ req[r].resp.kind = "transcription" =>
              /\ req[r].translator \in {"returned", "raised"}
              /\ req[r].resp.translation_status = "ok" <=> req[r].translator = "returned"

\* the translation raised in a YouTube request and in an upload, both answered 200
C2_Witness ==
    /\ req[1].endpoint = "youtube" /\ req[1].translator = "raised"
    /\ req[2].endpoint = "upload" /\ req[2].translator = "raised"
    /\ req[1].resp.status = 200 /\ req[2].resp.status = 200
    /\ req[2].resp.translation_status = "failed"

\* C3: if acquisition, transcoding or recognition fails in a request, the request
\* ends with an error response: no TranscriptionResponse and no transcript text is
\* returned for it, on either endpoint, and its translation is never started.
C3_FatalFailureNoTranscript ==
    \A r \in Reqs :
        req[r].failed \in {"acquire", "validate", "transcode", "recognise"} =>
            /\ req[r].pc = "done"
            /\ req[r].resp.kind = "error"
            /\ req[r].resp.status \in {400, 415, 500}
            /\ req[r].resp.transcript_original = <<>>
            /\ req[r].resp.transcript_english = <<>>
            /\ req[r].translator = "none"
            /\ \A i \in 1..Len(req[r].stages) : req[r].stages[i] # "translate"

\* recognition failed in an upload after its transcoding, and in a YouTube request
\* after its download; both were answered with an error
C3_Witness ==
    /\ req[1].endpoint = "upload" /\ req[1].failed = "recognise"
    /\ req[2].endpoint = "youtube" /\ req[2].failed = "recognise"
    /\ req[1].resp.status = 500 /\ req[2].resp.kind = "error"

\* C12: over the whole life of a process, under every interleaving of its startup and
\* of the requests that call transcribe_file, the speech model is constructed at most
\* once, and every caller receives that same instance.
C12_ModelConstructedOnce ==
    /\ \A p \in Pids : whisper[p].built <= 1
    /\ \A r \in Reqs :
          req[r].model # NoModel =>
              /\ req[r].model = whisper[req[r].pid].cache
              /\ \A q \in Reqs :
                    (req[q].pid = req[r].pid /\ req[q].model # NoModel) =>
                        req[q].model = req[r].model

\* two requests of one process were recognised with the model its startup constructed
C12_Witness ==
    /\ req[1].pid = req[2].pid
    /\ req[1].model # NoModel /\ req[2].model = req[1].model
    /\ whisper[req[1].pid].built = 1
    /\ req[1].endpoint = "youtube" /\ req[2].endpoint = "upload"

\* a request whose handler has written or located a file and has not returned yet
InFlight(r) == req[r].pc \in {"saved", "acquired", "recognised"}

\* the temporary file paths request r uses
PathsOf(r) == {req[r].tmp_saved, req[r].audio_path} \ {NoPath}

\* C13: under any interleaving of requests, no two in-flight requests ever use the
\* same temporary file path, and the cleanup of one request never deletes a file that
\* another in-flight request still reads (the audio file of a request that is about to
\* be recognised is on disk); this includes two YouTube requests for the same video ID
\* and uploads handled by the same process.
C13_TemporaryFilesNotShared ==
    /\ \A r, q \in Reqs :
          (r # q /\ InFlight(r) /\ InFlight(q)) => PathsOf(r) \cap PathsOf(q) = {}
    /\ \A r \in Reqs : req[r].pc = "acquired" => req[r].audio_path \in fs

\* the part of C13 about uploads: two in-flight uploads never share a path
UploadPathsDistinct ==
    \A r, q \in Reqs :
        (r # q /\ req[r].endpoint = "upload" /\ req[q].endpoint = "upload"
              /\ req[r].pc \notin {"idle", "done"} /\ req[q].pc \notin {"idle", "done"}) =>
            PathsOf(r) \cap PathsOf(q) = {}

\* the audio of a request was deleted by the cleanup of another before it was read
AudioDeletedUnderReader ==
    \E r \in Reqs : req[r].pc = "acquired" /\ req[r].audio_path \notin fs

\* the handler of r is inside transcribe_file (after its acquisition or transcoding)
\* or inside translate_to_english with its backoff sleeps
Blocked(r) == req[r].pc \in {"acquired", "recognised"}

\* r was accepted and its handler has stages left to run
Waiting(r) == req[r].pc \in {"accepted", "saved"}

\* C14: while one request is blocked in its acquisition, transcoding, recognition or
\* translation-backoff stage, another concurrently accepted request can still make
\* progress: the handler of the other request can take its next step.
C14_OthersAdvance ==
    \A r, q \in Reqs :
        (r # q /\ Blocked(r) /\ Waiting(q)) => event_loop_free(q)

\* the part that holds: a request accepted by another process advances
OtherProcessAdvances ==
    \A r, q \in Reqs :
        (r # q /\ Blocked(r) /\ Waiting(q) /\ req[q].pid # req[r].pid) => event_loop_free(q)

\* what follows the last dot of a file name, in lower case (empty without a dot)
FilenameExtension(name) ==
    LET i == rfind(name, ".") IN
    IF i = 0 THEN <<>> ELSE lower(SubSeq(name, i + 1, Len(name)))

\* the declared MIME type starts with neither audio/ nor video/, or the extension of
\* the file name is in neither allowlist
Unsupported(r) ==
    \/ ~(startswith(req[r].content_type, Audio_) \/ startswith(req[r].content_type, Video_))
    \/ FilenameExtension(req[r].filename) \notin (AUDIO_EXTS \cup VIDEO_EXTS)

\* the stages of r that started an external tool, the recogniser or the translator
Invoked(r) == {req[r].stages[i] : i \in 1..Len(req[r].stages)}

\* C15: an upload whose declared MIME type starts with neither audio/ nor video/, or
\* whose filename extension is in neither the audio nor the video allowlist, is
\* answered with HTTP 415, and neither the transcoder, the recogniser nor the
\* translator is invoked for it.  (An upload is a request that the middleware passed
\* on to transcribe_upload.)
C15_UnsupportedUploadRejected ==
    \A r \in Reqs :
        (req[r].endpoint = "upload" /\ req[r].failed # "gateway" /\ Unsupported(r)) =>
            /\ Invoked(r) \cap {"ffmpeg", "recognise", "translate"} = {}
            /\ req[r].pc \notin {"acquired", "recognised", "responded"}
            /\ req[r].pc = "done" => (req[r].resp.status = 415 /\ req[r].resp.kind = "error")

\* a video with the extension .zip and an .mp4 declared as application/zip were both
\* answered 415 after they were saved
C15_Witness ==
    /\ req[1].endpoint = "upload" /\ req[2].endpoint = "upload"
    /\ req[1].filename = <<"a", ".", "z", "i", "p">> /\ is_video(req[1].content_type)
    /\ req[2].filename = <<"a", ".", "m", "p", "4">> /\ ~is_video(req[2].content_type)
    /\ ~is_audio(req[2].content_type) /\ req[2].content_type # <<>>
    /\ req[1].resp.status = 415 /\ req[2].resp.status = 415
    /\ req[1].stages = <<"save">> /\ req[2].stages = <<"save">>

\* the header carries HTTP Basic credentials whose user name and password both equal
\* the configured ones: the scheme Basic, then the base64 text of user:password
CarriesConfiguredCredentials(auth) ==
    /\ auth.type = "str"
    /\ \E e \in B64Table :
          /\ e.out = PyStr(AUTH_USERNAME \o <<":">> \o AUTH_PASSWORD)
          /\ auth.val = <<"B", "a", "s", "i", "c", " ">> \o e.b64

\* a route handler or a stage of the pipeline ran for r
HandlerRan(r) ==
    \/ req[r].pc \in {"accepted", "saved", "acquired", "recognised", "responded"}
    \/ req[r].stages # <<>>
    \/ req[r].failed \in {"acquire", "validate", "transcode", "recognise"}
    \/ req[r].resp.kind = "transcription"

\* C16: for every request whose method is not OPTIONS, no route handler and no
\* pipeline stage runs unless the request carries HTTP Basic credentials whose username
\* and password both equal the configured ones; a missing, malformed or mismatching
\* Authorization header always yields 401 with a WWW-Authenticate Basic challenge.
C16_AuthRequired ==
    \A r \in Reqs :
        (req[r].pc # "idle" /\ req[r].method # "OPTIONS") =>
            /\ HandlerRan(r) => CarriesConfiguredCredentials(req[r].authorization)
            /\ ~CarriesConfiguredCredentials(req[r].authorization) =>
                  /\ req[r].pc = "done"
                  /\ req[r].resp.status = 401
                  /\ req[r].resp.challenge

\* the part of C16 that holds: without the configured credentials no handler and no
\* stage runs, and the answer is 401 with the challenge or, for credentials that are
\* not ASCII, 500
NoHandlerWithoutCredentials ==
    \A r \in Reqs :
        (req[r].pc # "idle" /\ req[r].method # "OPTIONS"
              /\ ~CarriesConfiguredCredentials(req[r].authorization)) =>
            /\ ~HandlerRan(r)
            /\ req[r].pc = "done"
            /\ \/ req[r].resp.status = 401 /\ req[r].resp.challenge
               \/ req[r].resp.status = 500 /\ ~req[r].resp.challenge
                     /\ req[r].authorization \in {PyStr(Hdr_non_ascii_user), PyStr(Hdr_non_ascii_password)}

\* C17: cleanup_paths never raises: a deletion error on one path is discarded, the
\* remaining paths are still attempted (and deleted unless they fail too), and the
\* response already constructed for the request (status and body) is unchanged by any
\* cleanup outcome.
C17_CleanupBestEffort ==
    [][\A r \in Reqs :
          (req[r].pc = "responded" /\ req'[r].pc = "done") =>
              /\ req'[r].cleaned = req[r].to_clean
              /\ \A i \in 1..Len(req[r].to_clean) :
                    req[r].to_clean[i] \notin req'[r].unlink_errors => req[r].to_clean[i] \notin fs'
              /\ req'[r].resp = req[r].resp
              /\ req'[r].resp.status = 200 /\ req'[r].resp.kind = "transcription"]_vars

\* the unlink of the saved upload failed; the transcoded audio, the second path, was
\* deleted all the same and the response is the 200 built before
C17_Witness ==
    /\ req[1].endpoint = "upload" /\ req[1].pc = "done"
    /\ req[1].tmp_saved # req[1].audio_path
    /\ req[1].unlink_errors = {req[1].tmp_saved}
    /\ req[1].cleaned = <<req[1].tmp_saved, req[1].audio_path>>
    /\ req[1].tmp_saved \in fs /\ req[1].audio_path \notin fs
    /\ req[1].resp.status = 200

\* the stages in the order of the handlers: acquisition (yt-dlp, or the saving of the
\* upload and its transcoding by ffmpeg), recognition, translation with the assembly
\* of the response and the scheduling of the cleanup, then the cleanup itself
YoutubeStages == <<"yt-dlp", "recognise", "translate", "cleanup">>
UploadStages  == <<"save", "ffmpeg", "recognise", "translate", "cleanup">>

\* the last stage a request that failed at `failure` can have started
LastStageOf(failure) ==
    CASE failure = "acquire"   -> {<<>>, <<"yt-dlp">>}
      [] failure = "validate"  -> {<<"save">>}
      [] failure = "transcode" -> {<<"save", "ffmpeg">>}
      [] failure = "recognise" -> {<<"yt-dlp", "recognise">>, <<"save", "ffmpeg", "recognise">>}

\* C18: within one request the stages run strictly in the order acquire, transcode
\* (upload path only), recognise, translate, assemble response, schedule cleanup; each
\* stage starts only after the previous one returned successfully, so the recogniser
\* is never invoked after a failed acquisition or transcode and the translator never
\* before recognition returned.
C18_StagesInOrder ==
    \A r \in Reqs :
        LET expected == IF req[r].endpoint = "upload" THEN UploadStages ELSE YoutubeStages
            n == Len(req[r].stages)
        IN /\ n <= Len(expected)
           /\ req[r].stages = SubSeq(expected, 1, n)
           /\ req[r].failed \in {"acquire", "validate", "transcode", "recognise"} =>
                 /\ req[r].pc = "done"
                 /\ req[r].stages \in LastStageOf(req[r].failed)
           /\ req[r].translator # "none" <=> "translate" \in Invoked(r)
           /\ req[r].resp.kind = "transcription" <=> "translate" \in Invoked(r)
           /\ req[r].to_clean # <<>> <=> req[r].resp.kind = "transcription"
           /\ "cleanup" \in Invoked(r) => req[r].to_clean # <<>>

\* an upload went through its five stages; a YouTube request stopped at a failed
\* download
C18_Witness ==
    /\ req[1].endpoint = "upload" /\ req[1].stages = UploadStages
    /\ req[2].endpoint = "youtube" /\ req[2].stages = <<"yt-dlp">>
    /\ req[2].failed = "acquire" /\ req[2].pc = "done"

\* canonical audio: AAC in an M4A container, mono, 16 kHz
CanonicalAudio(f) ==
    f.container = "m4a" /\ f.codec = "aac" /\ f.channels = 1 /\ f.rate = 16000

\* transcribe_file was called for request r
Recognising(r) == "recognise" \in Invoked(r)

\* C24: every file passed to transcribe_file is canonical audio, an M4A file that is
\* mono, 16 kHz, AAC: the output of ffmpeg for an upload, the file returned by
\* download_youtube_best_audio for a YouTube reference, also when that file has an
\* extension other than .m4a.
C24_RecogniserHearsCanonicalAudio ==
    \A r \in Reqs : Recognising(r) => CanonicalAudio(req[r].audio_format)

\* the same, for the uploads only
UploadsHeardCanonical ==
    \A r \in Reqs :
        (Recognising(r) /\ req[r].endpoint = "upload") =>
            /\ CanonicalAudio(req[r].audio_format)
            /\ req[r].audio_path.suffix = Dot_m4a

\* transcribe_file got the .m4a file of a YouTube video, which is stereo
StereoDownloadRecognised ==
    \E r \in Reqs :
        /\ req[r].endpoint = "youtube" /\ req[r].pc = "recognised"
        /\ req[r].audio_path.suffix = Dot_m4a
        /\ req[r].audio_format.channels = 2

\* transcribe_file got a .webm file that the fallback of line 192 returned
WebmDownloadRecognised ==
    \E r \in Reqs :
        /\ req[r].endpoint = "youtube" /\ req[r].pc = "recognised"
        /\ req[r].audio_path.suffix = Dot_webm

\* ffmpeg was started for upload r
Transcoding(r) == req[r].endpoint = "upload" /\ "ffmpeg" \in Invoked(r)

\* C25: for every accepted upload, whatever the suffix of its file name (.m4a
\* included), the path ffmpeg writes the canonical audio to differs from the path of the
\* saved upload it reads, and the paths handed to cleanup_paths are two distinct files.
C25_TranscoderOutputIsNotItsInput ==
    \A r \in Reqs :
        /\ Transcoding(r) => transcoder_output(req[r].tmp_saved) # req[r].tmp_saved
        /\ (req[r].endpoint = "upload" /\ req[r].to_clean # <<>>) =>
              /\ Len(req[r].to_clean) = 2
              /\ req[r].to_clean[1] # req[r].to_clean[2]

\* the same, for the uploads whose file name does not end in .m4a
OutputIsNotInputUnlessM4a ==
    \A r \in Reqs :
        /\ (Transcoding(r) /\ path_suffix(req[r].filename) # Dot_m4a) =>
              transcoder_output(req[r].tmp_saved) # req[r].tmp_saved
        /\ (req[r].endpoint = "upload" /\ req[r].to_clean # <<>>) =>
              /\ Len(req[r].to_clean) = 2
              /\ req[r].to_clean[1] # req[r].to_clean[2]

\* ffmpeg was run on the saved upload a.m4a with that file as its output and failed;
\* the request was answered 500
M4aUploadTranscodedOntoItself ==
    \E r \in Reqs :
        /\ Transcoding(r)
        /\ req[r].filename = <<"a", ".", "m", "4", "a">>
        /\ req[r].tmp_saved.suffix = Dot_m4a
        /\ req[r].failed = "transcode"
        /\ req[r].resp.status = 500

\* no upload a.m4a gets as far as the recogniser
M4aUploadNeverRecognised ==
    \A r \in Reqs :
        (req[r].endpoint = "upload" /\ req[r].filename = <<"a", ".", "m", "4", "a">>) =>
            "recognise" \notin Invoked(r)

====
